---- MODULE Spec2Model ----
(***************************************************************************)
(* A model of the sharded TTL cache of package kvcache (KVCache): shards   *)
(* with a read-write mutex, pooled CacheEntry objects, lazy expiration in  *)
(* Get, sampled eviction in Set, the cleanup goroutine and the metrics.    *)
(*                                                                         *)
(* Callers run operations step by step; a step is the code between two     *)
(* points at which the goroutine may block on a shard mutex.  Time is the  *)
(* value time.Now().UnixNano() returns, in abstract units.                 *)
(***************************************************************************)
EXTENDS Integers, Sequences, FiniteSets, TLC

\* ------------------------------------------------------------------ bounds

\* The clock runs from 1 to MaxTime.
MaxTime == 3

\* Calls the callers may start in one behaviour.
MaxOps == 3

\* The largest counter value HitRate is applied to.
MaxCount == 80

\* ------------------------------------------------------- program constants

NumShards == 256

sampleSize == 5

\* math.MaxInt64, the initial oldestTime of evictOldest, stands as the largest
\* integer of the model: every lastAccess is smaller.
MaxInt64 == 2147483647

\* ------------------------------------------------------------------- keys

\* Keys are byte strings.  "", "ak", "d4", "nv", "wq", "DT" and "JZ" hash to
\* shard 197, "a" to 44.
KeyEmpty == << >>

KeyAK == <<97, 107>>

KeyD4 == <<100, 52>>

KeyA == <<97>>

KeyNV == <<110, 118>>

KeyWQ == <<119, 113>>

KeyDT == <<68, 84>>

KeyJZ == <<74, 90>>

Keys == {KeyEmpty, KeyAK, KeyD4, KeyA, KeyNV, KeyWQ, KeyDT, KeyJZ}

Values == {"v1", "v2"}

\* The nil interface value.
Nil == "nil"

\* The variadic ttl of Set(key, value, ttl...): no TTL passed, or one.
NoTTL == << >>

TTLArgs == {NoTTL, <<-1>>, <<0>>, <<1>>}

\* The configurations NewKVCacheWithCapacity is called with.
DefaultTTLs == {0, 2}

Capacities == {0, 1, 2}

PositiveCapacities == {c \in Capacities : c > 0}

PositiveTTLs == {d \in DefaultTTLs : d > 0}

\* The key lists GetMulti is called with.
GetMultiArgs == {<< >>, <<KeyA, KeyAK>>, <<KeyAK, KeyAK>>, <<KeyEmpty, KeyD4>>}

\* The calling goroutines, and the cleanup goroutine NewKVCacheWithCapacity starts.
Procs == {"g1", "g2", "g3"}

Reaper == "cleanup"

NoHolder == "none"

\* ------------------------------------------------------------- getShard

RECURSIVE Bits(_, _)
\* The n low bits of x, least significant first.
Bits(x, n) == IF n = 0 THEN << >> ELSE <<x % 2>> \o Bits(x \div 2, n - 1)

RECURSIVE FromBits(_)
FromBits(b) == IF b = << >> THEN 0 ELSE Head(b) + 2 * FromBits(Tail(b))

\* x XOR y on bytes.
Xor8(x, y) ==
    LET bx == Bits(x, 8)
        by == Bits(y, 8)
    IN  FromBits([i \in 1..8 |-> (bx[i] + by[i]) % 2])

\* One round of 32-bit FNV-1a on the hash <<hi, lo>> (two 16-bit halves):
\* hash ^= byte; hash *= 16777619 (= 2^24 + 403), modulo 2^32.
FnvStep(h, byte) ==
    LET lo == (h[2] \div 256) * 256 + Xor8(h[2] % 256, byte)
        hi == h[1]
        pl == lo * 403
    IN  << (hi * 403 + pl \div 65536 + (lo % 256) * 256) % 65536, pl % 65536 >>

RECURSIVE Fnv32a(_, _)
Fnv32a(h, bytes) ==
    IF bytes = << >> THEN h ELSE Fnv32a(FnvStep(h, Head(bytes)), Tail(bytes))

\* fnv.New32a() starts at the offset basis 2166136261 = 0x811C9DC5.
Sum32(key) == Fnv32a(<<33052, 40389>>, key)

\* idx := h.Sum32() % uint32(c.numShards), computed on the two halves of the sum.
getShard ==
    [k \in Keys |->
        ((Sum32(k)[1] % NumShards) * (65536 % NumShards) + Sum32(k)[2]) % NumShards]

\* The shards some key of Keys hashes to; every other shard of c.shards stays
\* empty and unlocked apart from the passes of Clear, Size and cleanup, which
\* leave an empty shard as it is.
ShardIds == {getShard[k] : k \in Keys}

RECURSIVE SortedSeq(_)
\* c.shards in index order, restricted to ShardIds.
SortedSeq(S) ==
    IF S = {} THEN << >>
    ELSE LET m == CHOOSE x \in S : \A y \in S : x <= y
         IN  <<m>> \o SortedSeq(S \ {m})

shards == SortedSeq(ShardIds)

\* CacheEntry objects: the pool makes a new one whenever a Get takes none of
\* the entries put back.  A cache starts with sampleSize + 1 mapped entries at
\* most, and then every Set makes one more at most; the Sets of SetMulti, two
\* to a call, start on an empty cache.
EntryIds == 1..(sampleSize + 1 + MaxOps)

\* &CacheEntry{} of entryPool.New.
NewEntry == [Value |-> Nil, Expiration |-> 0, lastAccess |-> 0]


\* ------------------------------------------------------------------ state

VARIABLES
    ttl,          \* c.ttl
    maxCapacity,  \* c.maxCapacity
    store,        \* shard.store: for each shard, key -> entry
    size,         \* shard.size
    mutex,        \* shard.mutex: the writer and the readers holding it
    heap,         \* the fields of every CacheEntry
    pool,         \* c.entryPool: how often each entry lies in the pool
    hits,         \* c.hits
    misses,       \* c.misses
    evictions,    \* c.evictions
    clock,        \* time.Now().UnixNano()
    proc,         \* each caller's position and local variables
    reaper,       \* the cleanup goroutine's position and local variables
    ret,          \* what each caller's last completed call returned
    nops,         \* calls started so far
    gets,         \* history: Get calls completed so far
    written,      \* history: the last Set of each key not undone since
    owner,        \* history: the key each entry was last mapped under
    done          \* c.done is closed

vars ==
    << ttl, maxCapacity, store, size, mutex, heap, pool, hits, misses, evictions,
       clock, proc, reaper, ret, nops, gets, written, owner, done >>

\* ---------------------------------------------------------------- helpers

EmptyMap == [k \in {} |-> Nil]

MapPut(m, k, e) == [x \in DOMAIN m \cup {k} |-> IF x = k THEN e ELSE m[x]]

MapDel_Keeps(m, k) == m

\* delete(shard.store, k)
MapDel(m, k) == [x \in DOMAIN m \ {k} |-> m[x]]

Range(f) == {f[x] : x \in DOMAIN f}

Min(a, b) == IF a <= b THEN a ELSE b

MinOf(S) == CHOOSE x \in S : \A y \in S : x <= y

RECURSIVE Perms(_)
\* Every order in which a range over a map with key set S may visit it.
Perms(S) ==
    IF S = {} THEN {<< >>}
    ELSE UNION {{<<k>> \o t : t \in Perms(S \ {k})} : k \in S}

\* The key sets a shard's map may have, and the iteration orders of each,
\* computed once.
MapKeySets == UNION {SUBSET {k \in Keys : getShard[k] = s} : s \in ShardIds}

Orders == [S \in MapKeySets |-> Perms(S)] @@ << >>

\* The entries some shard's map holds.
Mapped(st) == UNION {Range(st[s]) : s \in ShardIds}

\* sync.RWMutex: Lock succeeds when nobody holds the mutex, RLock when no writer does.
CanLock_Always(s) == TRUE

CanLock(s) == mutex[s].w = NoHolder /\ mutex[s].r = {}

CanRLock_Always(s) == TRUE

CanRLock(s) == mutex[s].w = NoHolder

Lock(mx, s, g) == [mx EXCEPT ![s].w = g]

Unlock_Missing(mx, s) == mx

Unlock(mx, s) == [mx EXCEPT ![s].w = NoHolder]

RLock(mx, s, g) == [mx EXCEPT ![s].r = @ \cup {g}]

RUnlock_Missing(mx, s, g) == mx

\* shard.mutex.RUnlock()
RUnlock(mx, s, g) == [mx EXCEPT ![s].r = @ \ {g}]

AtomicAdd_Lost(counter, delta) == counter

\* atomic.Uint64.Add of c.hits, c.misses and c.evictions.
AtomicAdd(counter, delta) == counter + delta

Shrunk_ByOne(sz, removed) == sz - 1

\* shard.size--, once for every entry removed.
Shrunk(sz, removed) == sz - removed

PoolPut_Twice(pl, e) == [pl EXCEPT ![e] = @ + 2]

\* entryPool.Put(entry)
PoolPut(pl, e) == [pl EXCEPT ![e] = @ + 1]

\* entryPool.Get(): an entry lying in the pool, with the fields it was put back
\* with, which leaves the pool, or the new zeroed CacheEntry of New (the pool
\* is empty or sync.Pool does not look at its content), which leaves the pool
\* as it is.  A new entry takes the first identity not yet handed out.
PoolGet(pl, hp, used) ==
    LET pooled == {e \in EntryIds : pl[e] > 0}
        fresh  == MinOf(EntryIds \ (used \cup pooled))
    IN  {[e |-> e, entry |-> hp[e], pool |-> [pl EXCEPT ![e] = @ - 1], recycled |-> TRUE] :
            e \in pooled}
        \cup
        {[e |-> fresh, entry |-> NewEntry, pool |-> pl, recycled |-> FALSE]}

Idle ==
    [pc |-> "idle", op |-> "none", key |-> KeyEmpty, val |-> Nil, exp |-> 0,
     deadline |-> 0, victim |-> {},
     keys |-> << >>, acc |-> EmptyMap, i |-> 0,
     entries |-> EmptyMap, rest |-> << >>, t |-> NoTTL, during |-> "none", entry |-> 0,
     now |-> 0, found |-> FALSE, upgraded |-> FALSE, removed |-> FALSE,
     stats |-> [Hits |-> 0, Misses |-> 0, Evictions |-> 0, Size |-> 0]]

NoRet == [op |-> "none"]

NoWrite == [set |-> FALSE, val |-> Nil, deadline |-> 0, recycled |-> FALSE]

\* The lifetime the documentation of Set prescribes: the per-call TTL if one is
\* passed and positive, the default TTL otherwise.
EffectiveTTL(dflt, t) == IF t = NoTTL THEN dflt ELSE IF t[1] <= 0 THEN dflt ELSE t[1]

\* ------------------------------------------------------------------- Init

\* The state NewKVCacheWithCapacity(defaultTTL, maxCapacityPerShard) returns.
NewKVCacheWithCapacity(defaultTTL, maxCapacityPerShard) ==
    /\ ttl = defaultTTL
    /\ maxCapacity = maxCapacityPerShard
    /\ store = [s \in ShardIds |-> EmptyMap]
    /\ size = [s \in ShardIds |-> 0]
    /\ mutex = [s \in ShardIds |-> [w |-> NoHolder, r |-> {}]]
    /\ heap = [e \in EntryIds |-> NewEntry]
    /\ pool = [e \in EntryIds |-> 0]
    /\ hits = 0
    /\ misses = 0
    /\ evictions = 0
    /\ clock = 1
    /\ proc = [p \in Procs |-> Idle]
    /\ reaper = [pc |-> "select", now |-> 0, i |-> 0, expiredKeys |-> {}]
    /\ ret = [p \in Procs |-> NoRet]
    /\ nops = 0
    /\ gets = 0
    /\ written = [k \in Keys |-> NoWrite]
    /\ owner = [e \in EntryIds |-> {}]
    /\ done = FALSE

\* Time passes.
Tick ==
    /\ clock < MaxTime
    /\ clock' = clock + 1
    /\ UNCHANGED << ttl, maxCapacity, store, size, mutex, heap, pool, hits, misses,
                    evictions, proc, reaper, ret, nops, gets, written, owner, done >>


\* -------------------------------------------------------------------- Set

SetExpiration_ZeroIsForever(now, dflt, t) ==
    IF Len(t) > 0 /\ t[1] > 0 THEN now + t[1]
    ELSE IF dflt = 0 THEN 0 ELSE now + dflt

SetExpiration_ZeroPasses(now, dflt, t) ==
    IF Len(t) > 0 /\ t[1] >= 0 THEN now + t[1] ELSE now + dflt

\* expiration := time.Now().Add(c.ttl).UnixNano(), replaced by
\* time.Now().Add(ttl[0]).UnixNano() if len(ttl) > 0 && ttl[0] > 0.
SetExpiration(now, dflt, t) ==
    IF Len(t) > 0 /\ t[1] > 0 THEN now + t[1] ELSE now + dflt

\* c.maxCapacity > 0 && shard.size >= c.maxCapacity, and the key does not exist.
NeedEvict_IgnoresExists(cap, sz, exists) == cap > 0 /\ sz >= cap

\* c.maxCapacity > 0 && shard.size >= c.maxCapacity, and the key is not in the map.
NeedEvict(cap, sz, exists) == cap > 0 /\ sz >= cap /\ ~exists

RECURSIVE ScanOldest(_, _, _, _, _, _)
\* The loop of evictOldest over the map m in the iteration order `order`:
\* at most sampleSize entries are looked at, a strictly smaller lastAccess
\* replaces the oldest so far.  Returns oldestKey.
ScanOldest(order, m, hp, sampled, oldestKey, oldestTime) ==
    IF order = << >> \/ sampled >= sampleSize THEN oldestKey
    ELSE LET key == Head(order)
             lastAccess == hp[m[key]].lastAccess
         IN  IF lastAccess < oldestTime
             THEN ScanOldest(Tail(order), m, hp, sampled + 1, key, lastAccess)
             ELSE ScanOldest(Tail(order), m, hp, sampled + 1, oldestKey, oldestTime)

OldestKeys_Any(m, hp) == DOMAIN m

\* The keys the loop of evictOldest may end with as oldestKey, one for every
\* iteration order of the map m.  oldestKey starts as "".
OldestKeys(m, hp) ==
    {ScanOldest(order, m, hp, 0, KeyEmpty, MaxInt64) : order \in Orders[DOMAIN m]}

CountEviction_Twice(ev) == AtomicAdd(ev, 2)

\* evictOldest, line 218: c.evictions.Add(1), after the one delete of line 215.
CountEviction(ev) == AtomicAdd(ev, 1)

Victims_ExpiredFirst(m, hp, now) ==
    LET expired == {k \in DOMAIN m : hp[m[k]].Expiration > 0 /\ now > hp[m[k]].Expiration}
    IN  IF expired # {} THEN expired ELSE OldestKeys(m, hp)

\* evictOldest, lines 198-210, called at time now: the loop loads lastAccess
\* and nothing else of an entry, and no clock is read.
Victims(m, hp, now) == OldestKeys(m, hp)

\* evictOldest(s), lines 212-217, on a shard with map m and size sz, after the
\* loop has ended with oldestKey: the shard and the pool it leaves before it
\* counts the eviction.
evictOldest(m, sz, pl, oldestKey) ==
    IF oldestKey # KeyEmpty /\ oldestKey \in DOMAIN m
    THEN [store |-> MapDel(m, oldestKey), size |-> sz - 1,
          pool |-> PoolPut(pl, m[oldestKey]), victim |-> {oldestKey}]
    ELSE [store |-> m, size |-> sz, pool |-> pl, victim |-> {}]

SetEntry_KeepsValue(entry, value, expiration, now) ==
    [entry EXCEPT !.Value = IF entry.Value = Nil THEN value ELSE entry.Value,
                  !.Expiration = expiration, !.lastAccess = now]

\* entry.Value = value; atomic stores of Expiration and lastAccess.
SetEntry(entry, value, expiration, now) ==
    [entry EXCEPT !.Value = value, !.Expiration = expiration, !.lastAccess = now]

EntryFor_AlwaysGet(ok, m, key, pl, hp, used) == PoolGet(pl, hp, used)

\* Set, lines 115-118: entry, ok := shard.store[key]; if !ok { entry =
\* c.entryPool.Get().(*CacheEntry) }.
EntryFor(ok, m, key, pl, hp, used) ==
    IF ok
    THEN {[e |-> m[key], entry |-> hp[m[key]], pool |-> pl, recycled |-> FALSE]}
    ELSE PoolGet(pl, hp, used)

Grown_Always(sz, ok) == sz + 1

\* Set, lines 115-119: shard.size++ if the key is not in the map.
Grown(sz, ok) == IF ok THEN sz ELSE sz + 1

\* Set, lines 97-98: the call is made and its shard found; the caller is about
\* to Lock the shard's mutex.
StartSet(p, k, v, t) ==
    /\ proc[p].pc = "idle"
    /\ proc' = [proc EXCEPT ![p] =
                  [Idle EXCEPT !.pc = "set_lock", !.op = "Set", !.key = k, !.val = v,
                               !.t = t]]
    /\ ret' = [ret EXCEPT ![p] = NoRet]
    /\ nops' = nops + 1
    /\ UNCHANGED << ttl, maxCapacity, store, size, mutex, heap, pool, hits, misses,
                    evictions, clock, reaper, gets, written, owner, done >>

Exists_LiveOnly(m, key, hp, now) ==
    key \in DOMAIN m /\ ~(hp[m[key]].Expiration > 0 /\ now > hp[m[key]].Expiration)

\* Set, lines 109 and 115: _, exists := shard.store[key] and entry, ok :=
\* shard.store[key], the presence of the key in the map; the entry's
\* Expiration is not read.
Exists(m, key, hp, now) == key \in DOMAIN m

\* Set, lines 115-126 and the deferred Unlock, of a call that has evicted the
\* keys of `victim`: the entry of the key or one of the pool, its three
\* fields, the map, and the return to the caller or to the loop of SetMulti.
SetFinish(p, victim) ==
    LET k == proc[p].key
        s == getShard[k]
        ok == Exists(store[s], k, heap, clock)
    IN  /\ \E g \in EntryFor(ok, store[s], k, pool, heap, Mapped(store)) :
              /\ store' = [store EXCEPT ![s] = MapPut(store[s], k, g.e)]
              /\ size' = [size EXCEPT ![s] = Grown(size[s], ok)]
              /\ heap' = [heap EXCEPT ![g.e] =
                            SetEntry(g.entry, proc[p].val, proc[p].exp, clock)]
              /\ pool' = g.pool
              /\ written' =
                   [written EXCEPT ![k] =
                      [set |-> TRUE, val |-> proc[p].val, deadline |-> proc[p].deadline,
                       recycled |-> g.recycled /\ owner[g.e] \notin {{}, {k}}]]
              /\ owner' = [owner EXCEPT ![g.e] = {k}]
        /\ mutex' = Unlock(mutex, s)
        /\ ret' = [ret EXCEPT ![p] =
                     [op |-> "Set", key |-> k, val |-> proc[p].val,
                      existed |-> k \in DOMAIN store[s] \/ k \in victim,
                      full |-> /\ maxCapacity > 0
                               /\ size[s] + Cardinality(victim) >= maxCapacity,
                      victim |-> victim]]
        /\ proc' = [proc EXCEPT ![p] =
                      IF proc[p].op = "Set" THEN Idle
                      ELSE [@ EXCEPT !.pc = IF Len(proc[p].rest) > 1
                                            THEN "set_lock" ELSE "setmulti_return",
                                     !.rest = Tail(@), !.victim = {}]]
        /\ UNCHANGED << ttl, maxCapacity, hits, misses, evictions, clock, reaper, nops,
                        gets, done >>

\* Set, lines 107-113: the check of the capacity and, on a full shard without
\* the key, evictOldest up to its entryPool.Put (lines 198-217).  The pool and
\* the evictions counter are shared with the callers of other shards, whom the
\* shard's mutex does not stop, so the eviction is counted and the entry for
\* the key taken in steps of their own.  A call that evicts nothing goes on to
\* line 126 and returns.
SetBody(p) ==
    /\ proc[p].pc = "set_body"
    /\ LET k == proc[p].key
           s == getShard[k]
           need == NeedEvict(maxCapacity, size[s], Exists(store[s], k, heap, clock))
       IN  IF ~need
           THEN SetFinish(p, {})
           ELSE \E oldestKey \in Victims(store[s], heap, clock) :
                  LET a == evictOldest(store[s], size[s], pool, oldestKey)
                  IN  IF a.victim = {}
                      THEN SetFinish(p, {})
                      ELSE /\ store' = [store EXCEPT ![s] = a.store]
                           /\ size' = [size EXCEPT ![s] = a.size]
                           /\ pool' = a.pool
                           /\ written' = [x \in Keys |->
                                            IF x \in a.victim THEN NoWrite
                                            ELSE written[x]]
                           /\ proc' = [proc EXCEPT ![p].pc = "set_evicted",
                                                   ![p].victim = a.victim]
                           /\ UNCHANGED << ttl, maxCapacity, mutex, heap, hits, misses,
                                           evictions, clock, reaper, ret, nops, gets,
                                           owner, done >>

\* evictOldest, line 218: c.evictions.Add(1).
SetEvictCount(p) ==
    /\ proc[p].pc = "set_evicted"
    /\ evictions' = CountEviction(evictions)
    /\ proc' = [proc EXCEPT ![p].pc = "set_store"]
    /\ UNCHANGED << ttl, maxCapacity, store, size, mutex, heap, pool, hits, misses,
                    clock, reaper, ret, nops, gets, written, owner, done >>

\* Set, lines 115-126 and the deferred Unlock, after an eviction.
SetStore(p) ==
    /\ proc[p].pc = "set_store"
    /\ SetFinish(p, proc[p].victim)


\* -------------------------------------------------------------------- Get

Expired_AtDeadline(expiration, now) == expiration > 0 /\ now >= expiration

\* expiration > 0 && now > expiration
Expired(expiration, now) == expiration > 0 /\ now > expiration

Collect_Always(result, key, value, ok) == MapPut(result, key, value)

\* GetMulti, lines 329-331: if value, ok := c.Get(key); ok { result[key] = value }
Collect(result, key, value, ok) == IF ok THEN MapPut(result, key, value) ELSE result

\* A Get returns to its caller, or to the loop of GetMulti.
GetReturn(p, value, found, removed) ==
    /\ ret' = [ret EXCEPT ![p] =
                 [op |-> "Get", key |-> proc[p].key, val |-> value, found |-> found,
                  removed |-> removed]]
    /\ gets' = gets + 1
    /\ proc' = [proc EXCEPT ![p] =
                  IF proc[p].op = "Get" THEN Idle
                  ELSE [@ EXCEPT !.pc = IF proc[p].i < Len(proc[p].keys)
                                        THEN "get_rlock" ELSE "getmulti_return",
                                 !.i = @ + 1,
                                 !.key = IF proc[p].i < Len(proc[p].keys)
                                         THEN proc[p].keys[proc[p].i + 1] ELSE KeyEmpty,
                                 !.acc = Collect(@, proc[p].key, value, found),
                                 !.val = Nil, !.entry = 0, !.now = 0, !.found = FALSE,
                                 !.upgraded = FALSE, !.removed = FALSE]]

\* Get, lines 130-131: the call is made and its shard found; the caller is
\* about to RLock the shard's mutex.
StartGet(p, k) ==
    /\ proc[p].pc = "idle"
    /\ proc' = [proc EXCEPT ![p] = [Idle EXCEPT !.pc = "get_rlock", !.op = "Get", !.key = k]]
    /\ ret' = [ret EXCEPT ![p] = NoRet]
    /\ nops' = nops + 1
    /\ UNCHANGED << ttl, maxCapacity, store, size, mutex, heap, pool, hits, misses,
                    evictions, clock, reaper, gets, written, owner, done >>

\* Get, line 132: RLock returns, in a call of Get or in the call GetMulti makes
\* at line 329.
GetRLock(p) ==
    /\ proc[p].pc = "get_rlock"
    /\ CanRLock(getShard[proc[p].key])
    /\ mutex' = RLock(mutex, getShard[proc[p].key], p)
    /\ proc' = [proc EXCEPT ![p].pc = "get_read"]
    /\ UNCHANGED << ttl, maxCapacity, store, size, heap, pool, hits, misses, evictions,
                    clock, reaper, ret, nops, gets, written, owner, done >>

Touch_ExtendsTTL(entry, now) ==
    [entry EXCEPT !.lastAccess = now,
                  !.Expiration = IF @ > 0 THEN now + 1 ELSE @]

\* Get, line 169: atomic.StoreInt64(&entry.lastAccess, now), the one write of
\* a hit.
Touch(entry, now) == [entry EXCEPT !.lastAccess = now]

\* Get, lines 134-147, under the shared lock: the key is looked up, the
\* deadline loaded and the clock read.  An absent key and an expired entry end
\* with the RUnlock of lines 136 and 147; on a hit the lock stays held and the
\* entry and the time read at line 143 are kept for the store of line 169.
GetRead(p) ==
    /\ proc[p].pc = "get_read"
    /\ LET k == proc[p].key
           s == getShard[k]
       IN  IF k \notin DOMAIN store[s]
           THEN /\ mutex' = RUnlock(mutex, s, p)
                /\ proc' = [proc EXCEPT ![p].pc = "get_count", ![p].found = FALSE,
                                        ![p].val = Nil]
           ELSE IF Expired(heap[store[s][k]].Expiration, clock)
           THEN /\ mutex' = RUnlock(mutex, s, p)
                /\ proc' = [proc EXCEPT ![p].pc = "get_wlock", ![p].entry = store[s][k],
                                        ![p].now = clock]
           ELSE /\ proc' = [proc EXCEPT ![p].pc = "get_touch", ![p].entry = store[s][k],
                                        ![p].now = clock]
                /\ UNCHANGED mutex
    /\ UNCHANGED << ttl, maxCapacity, store, size, heap, pool, hits, misses, evictions,
                    clock, reaper, ret, nops, gets, written, owner, done >>

\* Get, lines 169-171, still under the shared lock: the time read at line 143
\* is stored into lastAccess, the value is copied and the lock released.  The
\* store is atomic and other readers may store into the same entry.
GetTouch(p) ==
    /\ proc[p].pc = "get_touch"
    /\ heap' = [heap EXCEPT ![proc[p].entry] = Touch(@, proc[p].now)]
    /\ mutex' = RUnlock(mutex, getShard[proc[p].key], p)
    /\ proc' = [proc EXCEPT ![p].pc = "get_count", ![p].found = TRUE,
                            ![p].val = heap[proc[p].entry].Value]
    /\ UNCHANGED << ttl, maxCapacity, store, size, pool, hits, misses, evictions, clock,
                    reaper, ret, nops, gets, written, owner, done >>

\* Get, line 148.
GetWLock(p) ==
    /\ proc[p].pc = "get_wlock"
    /\ CanLock(getShard[proc[p].key])
    /\ mutex' = Lock(mutex, getShard[proc[p].key], p)
    /\ proc' = [proc EXCEPT ![p].pc = "get_recheck"]
    /\ UNCHANGED << ttl, maxCapacity, store, size, heap, pool, hits, misses, evictions,
                    clock, reaper, ret, nops, gets, written, owner, done >>

Refetched_Seen(m, key, seen) == seen

\* Get, line 151: freshEntry, stillExists := shard.store[key]; 0 stands for the
\* nil pointer of a key that is gone.  The entry seen under the shared lock,
\* line 133, plays no part.
Refetched(m, key, seen) == IF key \in DOMAIN m THEN m[key] ELSE 0

StillExpired_NoRecheck(stillExists, freshExp, freshNow) == stillExists

\* Get, lines 152-155: stillExists, and freshExp > 0 && freshNow > freshExp.
StillExpired(stillExists, freshExp, freshNow) == stillExists /\ Expired(freshExp, freshNow)

MissAfterUpgrade_OnlyRemoved(count, removed) ==
    IF removed THEN AtomicAdd(count, 1) ELSE count

\* Get, line 163: c.misses.Add(1), after the Unlock and outside both tests.
MissAfterUpgrade(count, removed) == AtomicAdd(count, 1)

\* Get, lines 151-162, under the exclusive lock, which the Unlock of line 162
\* releases; the miss is counted afterwards.
GetRecheck(p) ==
    /\ proc[p].pc = "get_recheck"
    /\ LET k == proc[p].key
           s == getShard[k]
           freshEntry == Refetched(store[s], k, proc[p].entry)
           stillExists == freshEntry # 0
           freshExp == IF stillExists THEN heap[freshEntry].Expiration ELSE 0
           stillExpired == StillExpired(stillExists, freshExp, clock)
       IN  /\ IF stillExpired
              THEN /\ store' = [store EXCEPT ![s] = MapDel(@, k)]
                   /\ size' = [size EXCEPT ![s] = Shrunk(@, 1)]
                   /\ pool' = PoolPut(pool, freshEntry)
              ELSE UNCHANGED << store, size, pool >>
           /\ mutex' = Unlock(mutex, s)
           /\ proc' = [proc EXCEPT ![p].pc = "get_count", ![p].found = FALSE,
                                   ![p].val = Nil, ![p].upgraded = TRUE,
                                   ![p].removed = stillExpired]
    /\ UNCHANGED << ttl, maxCapacity, heap, hits, misses, evictions, clock, reaper, ret,
                    nops, gets, written, owner, done >>

\* Get, lines 137-138, 163-164 and 173-174, with no lock held: the hit or the
\* miss is counted and Get returns.
GetCount(p) ==
    /\ proc[p].pc = "get_count"
    /\ IF proc[p].found
       THEN /\ hits' = AtomicAdd(hits, 1)
            /\ UNCHANGED misses
       ELSE /\ misses' = IF proc[p].upgraded
                         THEN MissAfterUpgrade(misses, proc[p].removed)
                         ELSE AtomicAdd(misses, 1)
            /\ UNCHANGED hits
    /\ GetReturn(p, proc[p].val, proc[p].found, proc[p].removed)
    /\ UNCHANGED << ttl, maxCapacity, store, size, mutex, heap, pool, evictions, clock,
                    reaper, nops, written, owner, done >>

\* ----------------------------------------------------------------- Delete

\* Delete, lines 178-179: the call is made and its shard found; the caller is
\* about to Lock the shard's mutex.
StartDelete(p, k) ==
    /\ proc[p].pc = "idle"
    /\ proc' = [proc EXCEPT ![p] =
                  [Idle EXCEPT !.pc = "delete_lock", !.op = "Delete", !.key = k]]
    /\ ret' = [ret EXCEPT ![p] = NoRet]
    /\ nops' = nops + 1
    /\ UNCHANGED << ttl, maxCapacity, store, size, mutex, heap, pool, hits, misses,
                    evictions, clock, reaper, gets, written, owner, done >>

\* Delete, line 180: Lock returns.
DeleteLock(p) ==
    /\ proc[p].pc = "delete_lock"
    /\ CanLock(getShard[proc[p].key])
    /\ mutex' = Lock(mutex, getShard[proc[p].key], p)
    /\ proc' = [proc EXCEPT ![p].pc = "delete_body"]
    /\ UNCHANGED << ttl, maxCapacity, store, size, heap, pool, hits, misses, evictions,
                    clock, reaper, ret, nops, gets, written, owner, done >>

\* Delete, lines 183-187 and the deferred Unlock.
DeleteBody(p) ==
    /\ proc[p].pc = "delete_body"
    /\ LET k == proc[p].key
           s == getShard[k]
           exists == k \in DOMAIN store[s]
       IN  /\ store' = [store EXCEPT ![s] = IF exists THEN MapDel(@, k) ELSE @]
           /\ size' = [size EXCEPT ![s] = Shrunk(@, IF exists THEN 1 ELSE 0)]
           /\ pool' = IF exists THEN PoolPut(pool, store[s][k]) ELSE pool
           /\ mutex' = Unlock(mutex, s)
           /\ ret' = [ret EXCEPT ![p] =
                        [op |-> "Delete", key |-> k, existed |-> exists]]
           /\ written' = [written EXCEPT ![k] = NoWrite]
    /\ proc' = [proc EXCEPT ![p] = Idle]
    /\ UNCHANGED << ttl, maxCapacity, heap, hits, misses, evictions, clock, reaper, nops,
                    gets, owner, done >>


\* ------------------------------------------------------------------ Clear

ClearedMap_Keeps(m) == m

\* The map after delete(shard.store, key) for every key of the range loop.
ClearedMap(m) == EmptyMap

\* Clear, lines 337-338: the call is made and the loop over c.shards begins;
\* the caller is about to Lock the first shard's mutex.
StartClear(p) ==
    /\ proc[p].pc = "idle"
    /\ proc' = [proc EXCEPT ![p] = [Idle EXCEPT !.pc = "clear_lock", !.op = "Clear", !.i = 1]]
    /\ ret' = [ret EXCEPT ![p] = NoRet]
    /\ nops' = nops + 1
    /\ UNCHANGED << ttl, maxCapacity, store, size, mutex, heap, pool, hits, misses,
                    evictions, clock, reaper, gets, written, owner, done >>

\* Clear, line 339: Lock returns, for the shard of this pass of the loop.
ClearLock(p) ==
    /\ proc[p].pc = "clear_lock"
    /\ CanLock(shards[proc[p].i])
    /\ mutex' = Lock(mutex, shards[proc[p].i], p)
    /\ proc' = [proc EXCEPT ![p].pc = "clear_body"]
    /\ UNCHANGED << ttl, maxCapacity, store, size, heap, pool, hits, misses, evictions,
                    clock, reaper, ret, nops, gets, written, owner, done >>

ClearTargets_All(i) == ShardIds

\* Clear, lines 338-339: the shard whose mutex iteration i of the loop over
\* c.shards holds, the only one lines 340-345 touch.
ClearTargets(i) == {shards[i]}

\* Clear, lines 340-345, on one shard.
ClearBody(p) ==
    /\ proc[p].pc = "clear_body"
    /\ LET s == shards[proc[p].i]
           T == ClearTargets(proc[p].i)
       IN  /\ store' = [x \in ShardIds |-> IF x \in T THEN ClearedMap(store[x]) ELSE store[x]]
           /\ pool' = [e \in EntryIds |->
                         IF \E x \in T : e \in Range(store[x]) THEN pool[e] + 1 ELSE pool[e]]
           /\ size' = [x \in ShardIds |-> IF x \in T THEN 0 ELSE size[x]]
           /\ mutex' = Unlock(mutex, s)
           /\ written' = [k \in Keys |-> IF getShard[k] \in T THEN NoWrite ELSE written[k]]
    /\ IF proc[p].i < Len(shards)
       THEN /\ proc' = [proc EXCEPT ![p].pc = "clear_lock", ![p].i = @ + 1]
            /\ UNCHANGED ret
       ELSE /\ proc' = [proc EXCEPT ![p] = Idle]
            /\ ret' = [ret EXCEPT ![p] = [op |-> "Clear"]]
    /\ UNCHANGED << ttl, maxCapacity, heap, hits, misses, evictions, clock, reaper, nops,
                    gets, owner, done >>

\* --------------------------------------------------------------- SetMulti

RangeOrders_SkipsLast(m) == {SubSeq(o, 1, Len(o) - 1) : o \in Perms(DOMAIN m)}

\* for key, value := range entries: the orders in which the loop may visit
\* the keys of the map.
RangeOrders(m) == Perms(DOMAIN m)

\* SetMulti, line 320: the iteration over entries begins.
StartSetMulti(p, entries, t) ==
    /\ proc[p].pc = "idle"
    /\ \E o \in RangeOrders(entries) :
         proc' = [proc EXCEPT ![p] =
                    [Idle EXCEPT !.pc = IF o = << >> THEN "setmulti_return" ELSE "set_lock",
                                 !.op = "SetMulti", !.entries = entries, !.rest = o,
                                 !.t = t]]
    /\ ret' = [ret EXCEPT ![p] = NoRet]
    /\ nops' = nops + 1
    /\ UNCHANGED << ttl, maxCapacity, store, size, mutex, heap, pool, hits, misses,
                    evictions, clock, reaper, gets, written, owner, done >>

PairValue_OfAnyKey(entries, k) == entries[CHOOSE x \in DOMAIN entries : x # k \/ DOMAIN entries = {k}]

\* SetMulti, lines 320-321: for key, value := range entries { c.Set(key, value, ttl...) },
\* the value an iteration passes to Set with its key.
PairValue(entries, k) == entries[k]

\* Set, lines 99-105, of a call of Set or of the call made at line 321 for the
\* next pair of the iteration: Lock returns and the deadline is computed.
SetLock(p) ==
    /\ proc[p].pc = "set_lock"
    /\ LET k == IF proc[p].op = "SetMulti" THEN Head(proc[p].rest) ELSE proc[p].key
           v == IF proc[p].op = "SetMulti" THEN PairValue(proc[p].entries, k)
                ELSE proc[p].val
       IN  /\ CanLock(getShard[k])
           /\ mutex' = Lock(mutex, getShard[k], p)
           /\ proc' = [proc EXCEPT ![p] =
                         [@ EXCEPT !.pc = "set_body", !.key = k, !.val = v,
                                   !.exp = SetExpiration(clock, ttl, proc[p].t),
                                   !.deadline = clock + EffectiveTTL(ttl, proc[p].t)]]
    /\ UNCHANGED << ttl, maxCapacity, store, size, heap, pool, hits, misses, evictions,
                    clock, reaper, ret, nops, gets, written, owner, done >>

\* SetMulti, line 323: the loop is over.
SetMultiReturn(p) ==
    /\ proc[p].pc = "setmulti_return"
    /\ ret' = [ret EXCEPT ![p] =
                 [op |-> "SetMulti", entries |-> proc[p].entries, t |-> proc[p].t]]
    /\ proc' = [proc EXCEPT ![p] = Idle]
    /\ UNCHANGED << ttl, maxCapacity, store, size, mutex, heap, pool, hits, misses,
                    evictions, clock, reaper, nops, gets, written, owner, done >>

\* --------------------------------------------------------------- GetMulti

\* GetMulti, lines 327-329: the result map, and the call of Get for the first
\* key if there is one.
StartGetMulti(p, ks) ==
    /\ proc[p].pc = "idle"
    /\ proc' = [proc EXCEPT ![p] =
                  IF ks = << >>
                  THEN [Idle EXCEPT !.pc = "getmulti_return", !.op = "GetMulti"]
                  ELSE [Idle EXCEPT !.pc = "get_rlock", !.op = "GetMulti", !.keys = ks,
                                    !.i = 1, !.key = ks[1]]]
    /\ ret' = [ret EXCEPT ![p] = NoRet]
    /\ nops' = nops + 1
    /\ UNCHANGED << ttl, maxCapacity, store, size, mutex, heap, pool, hits, misses,
                    evictions, clock, reaper, gets, written, owner, done >>

\* GetMulti, line 333.
GetMultiReturn(p) ==
    /\ proc[p].pc = "getmulti_return"
    /\ ret' = [ret EXCEPT ![p] =
                 [op |-> "GetMulti", keys |-> proc[p].keys, result |-> proc[p].acc]]
    /\ proc' = [proc EXCEPT ![p] = Idle]
    /\ UNCHANGED << ttl, maxCapacity, store, size, mutex, heap, pool, hits, misses,
                    evictions, clock, reaper, nops, gets, written, owner, done >>

\* ----------------------------------------------------------- Size, Stats

\* Size, line 282.
StartSize(p) ==
    /\ proc[p].pc = "idle"
    /\ proc' = [proc EXCEPT ![p] = [Idle EXCEPT !.pc = "size", !.op = "Size", !.i = 1]]
    /\ ret' = [ret EXCEPT ![p] = NoRet]
    /\ nops' = nops + 1
    /\ UNCHANGED << ttl, maxCapacity, store, size, mutex, heap, pool, hits, misses,
                    evictions, clock, reaper, gets, written, owner, done >>

\* Stats, line 294: Hits.
StartStats(p) ==
    /\ proc[p].pc = "idle"
    /\ proc' = [proc EXCEPT ![p] =
                  [Idle EXCEPT !.pc = "stats_misses", !.op = "Stats", !.stats.Hits = hits]]
    /\ ret' = [ret EXCEPT ![p] = NoRet]
    /\ nops' = nops + 1
    /\ UNCHANGED << ttl, maxCapacity, store, size, mutex, heap, pool, hits, misses,
                    evictions, clock, reaper, gets, written, owner, done >>

\* Stats, line 295: Misses.
StatsMisses(p) ==
    /\ proc[p].pc = "stats_misses"
    /\ proc' = [proc EXCEPT ![p].pc = "stats_evictions", ![p].stats.Misses = misses]
    /\ UNCHANGED << ttl, maxCapacity, store, size, mutex, heap, pool, hits, misses,
                    evictions, clock, reaper, ret, nops, gets, written, owner, done >>

\* Stats, line 296: Evictions; line 297 calls Size.
StatsEvictions(p) ==
    /\ proc[p].pc = "stats_evictions"
    /\ proc' = [proc EXCEPT ![p].pc = "size", ![p].i = 1,
                            ![p].stats.Evictions = evictions]
    /\ UNCHANGED << ttl, maxCapacity, store, size, mutex, heap, pool, hits, misses,
                    evictions, clock, reaper, ret, nops, gets, written, owner, done >>

Counted_LiveOnly(m, sz, hp, now) ==
    Cardinality({k \in DOMAIN m : ~Expired(hp[m[k]].Expiration, now)})

\* Size, line 285: total += shard.size, for a shard with map m and size sz; no
\* entry of the map is looked at.
Counted(m, sz, hp, now) == sz

\* Size, line 284: RLock returns, for the shard of this pass of the loop.
SizeRLock(p) ==
    /\ proc[p].pc = "size"
    /\ CanRLock(shards[proc[p].i])
    /\ mutex' = RLock(mutex, shards[proc[p].i], p)
    /\ proc' = [proc EXCEPT ![p].pc = "size_read"]
    /\ UNCHANGED << ttl, maxCapacity, store, size, heap, pool, hits, misses, evictions,
                    clock, reaper, ret, nops, gets, written, owner, done >>

\* Size, lines 285-288: the shard's size is added under its shared lock and
\* the lock released; after the last shard Size returns, to the caller or to
\* Stats.
SizeShard(p) ==
    /\ proc[p].pc = "size_read"
    /\ mutex' = RUnlock(mutex, shards[proc[p].i], p)
    /\ LET total == proc[p].stats.Size
                      + Counted(store[shards[proc[p].i]], size[shards[proc[p].i]], heap, clock)
       IN  IF proc[p].i < Len(shards)
           THEN /\ proc' = [proc EXCEPT ![p].pc = "size", ![p].i = @ + 1,
                                        ![p].stats.Size = total]
                /\ UNCHANGED ret
           ELSE /\ proc' = [proc EXCEPT ![p] = Idle]
                /\ ret' = [ret EXCEPT ![p] =
                             IF proc[p].op = "Size"
                             THEN [op |-> "Size", total |-> total]
                             ELSE [op |-> "Stats",
                                   stats |-> [proc[p].stats EXCEPT !.Size = total]]]
    /\ UNCHANGED << ttl, maxCapacity, store, size, heap, pool, hits, misses,
                    evictions, clock, reaper, nops, gets, written, owner, done >>

\* --------------------------------------------------------------- HitRate

\* A float64 is the pair of its 53-bit significand, a sequence of bits with
\* the leading 1 first, and the exponent of its last bit: the value is
\* mant * 2^exp.  Zero has the empty significand.  No count or rate comes
\* near the subnormal or the overflow range.
MantBits == 53

FloatZero == [mant |-> << >>, exp |-> 0]

\* Whole numbers beyond TLC's integers are sequences of binary digits, the
\* most significant first, worked on in limbs; four limbs hold a significand
\* and the digits beyond it that decide the rounding.
LimbBits == (MantBits + 7) \div 4

RECURSIVE Pow2(_)
Pow2(k) == IF k = 0 THEN 1 ELSE 2 * Pow2(k - 1)

LimbBase == Pow2(LimbBits)

\* The digits b without leading zeros, and without trailing zeros.
Normal(b) ==
    IF \A i \in 1..Len(b) : b[i] = 0 THEN << >>
    ELSE SubSeq(b, CHOOSE i \in 1..Len(b) : b[i] = 1 /\ \A j \in 1..(i - 1) : b[j] = 0,
                Len(b))

Odd(b) ==
    IF \A i \in 1..Len(b) : b[i] = 0 THEN << >>
    ELSE SubSeq(b, 1,
                CHOOSE i \in 1..Len(b) : b[i] = 1 /\ \A j \in (i + 1)..Len(b) : b[j] = 0)

\* The LimbBits digits of a limb v.
BitsOfLimb(v) == [i \in 1..LimbBits |-> (v \div Pow2(LimbBits - i)) % 2]

\* The binary digits of a natural number below LimbBase squared.
BitsOf(n) == Normal(BitsOfLimb(n \div LimbBase) \o BitsOfLimb(n % LimbBase))

\* The natural number with the binary digits b, for at most 30 digits.
RECURSIVE NatOf(_)
NatOf(b) == IF b = << >> THEN 0 ELSE 2 * NatOf(SubSeq(b, 1, Len(b) - 1)) + b[Len(b)]

\* The limbs of the digits b, the least significant limb first.
ToLimbs(b) ==
    [j \in 1..((Len(b) + LimbBits - 1) \div LimbBits) |->
        NatOf(SubSeq(b, IF Len(b) - LimbBits * j + 1 < 1 THEN 1
                        ELSE Len(b) - LimbBits * j + 1,
                     Len(b) - LimbBits * (j - 1)))]

\* The digits of the limbs l.
FromLimbs(l) ==
    Normal([i \in 1..(LimbBits * Len(l)) |->
               BitsOfLimb(l[Len(l) - ((i - 1) \div LimbBits)])[((i - 1) % LimbBits) + 1]])

\* The limbs of l * n + c, for small n and c.
RECURSIVE LimbMulAdd(_, _, _)
LimbMulAdd(l, n, c) ==
    IF l = << >>
    THEN IF c = 0 THEN << >> ELSE << c % LimbBase >> \o LimbMulAdd(l, n, c \div LimbBase)
    ELSE << (l[1] * n + c) % LimbBase >>
         \o LimbMulAdd(Tail(l), n, (l[1] * n + c) \div LimbBase)

\* The digits of b * n + c, for a number b of any length and small n and c.
BigMulAdd(b, n, c) == FromLimbs(LimbMulAdd(ToLimbs(b), n, c))

\* b <= c for two numbers without leading zeros.
BigLeq(b, c) ==
    \/ Len(b) < Len(c)
    \/ /\ Len(b) = Len(c)
       /\ \/ b = c
          \/ \E i \in 1..Len(b) :
                 /\ b[i] < c[i]
                 /\ \A j \in 1..(i - 1) : b[j] = c[j]

\* The float64 nearest to b * 2^e, where b has its leading 1 first and
\* sticky says that nonzero digits follow the ones of b: round to nearest,
\* ties to even, as IEEE 754 and Go prescribe for every float64 operation.
RoundToEven(b, sticky, e) ==
    IF Len(b) <= MantBits
    THEN [mant |-> b \o [i \in 1..(MantBits - Len(b)) |-> 0],
          exp |-> e - (MantBits - Len(b))]
    ELSE LET keep == SubSeq(b, 1, MantBits)
             rest == SubSeq(b, MantBits + 1, Len(b))
             more == sticky \/ \E i \in 2..Len(rest) : rest[i] = 1
             up == rest[1] = 1 /\ (more \/ keep[MantBits] = 1)
             m == IF up THEN BigMulAdd(keep, 1, 1) ELSE keep
         IN  [mant |-> SubSeq(m, 1, MantBits),
              exp |-> e + Len(rest) + (IF Len(m) > MantBits THEN 1 ELSE 0)]

\* float64(n) of a uint64 n: exact, as every count is below 2^53.
Float64(n) == IF n = 0 THEN FloatZero ELSE RoundToEven(BitsOf(n), FALSE, 0)

\* The least k with b <= a * 2^k, and the least k with a < b * 2^(k+1).
RECURSIVE ScaleUp(_, _)
ScaleUp(a, b) == IF a >= b THEN 0 ELSE 1 + ScaleUp(2 * a, b)

RECURSIVE ScaleDown(_, _)
ScaleDown(a, b) == IF a < 2 * b THEN 0 ELSE 1 + ScaleDown(a, 2 * b)

\* The next n limbs of r / b for r < b, followed by the remainder.
RECURSIVE QuoLimbs(_, _, _)
QuoLimbs(r, b, n) ==
    IF n = 0 THEN << r >>
    ELSE << (r * LimbBase) \div b >> \o QuoLimbs((r * LimbBase) % b, b, n - 1)

\* x / y in float64, line 315: the quotient rounded to 53 bits.  The operands
\* are conversions of counts, so their odd parts a and b are small numbers;
\* the quotient's leading 1, four limbs of further digits and the remainder
\* decide the rounding.
FloatDiv(x, y) ==
    IF x.mant = << >> THEN FloatZero
    ELSE LET a == NatOf(Odd(x.mant))
             b == NatOf(Odd(y.mant))
             ea == x.exp + (MantBits - Len(Odd(x.mant)))
             eb == y.exp + (MantBits - Len(Odd(y.mant)))
             up == ScaleUp(a, b)
             down == ScaleDown(a * Pow2(up), b)
             q == QuoLimbs(a * Pow2(up) - b * Pow2(down), b * Pow2(down), 4)
         IN  RoundToEven(<< 1 >> \o BitsOfLimb(q[1]) \o BitsOfLimb(q[2])
                                \o BitsOfLimb(q[3]) \o BitsOfLimb(q[4]),
                         q[5] # 0, ea - eb + down - up - 4 * LimbBits)

\* x * y in float64, line 315: the product rounded to 53 bits.  The factor y
\* is the constant 100, whose odd part is 25.
FloatMul(x, y) ==
    IF x.mant = << >> \/ y.mant = << >> THEN FloatZero
    ELSE RoundToEven(BigMulAdd(x.mant, NatOf(Odd(y.mant)), 0), FALSE,
                     x.exp + y.exp + (MantBits - Len(Odd(y.mant))))

HitRate_IntegerDivision(s) ==
    LET total == s.Hits + s.Misses
    IN  IF total = 0 THEN Float64(0)
        ELSE FloatMul(Float64(s.Hits \div total), Float64(100))

\* CacheStats.HitRate, lines 310-316.  The uint64 sum does not wrap for counts
\* up to MaxCount.
HitRate(s) ==
    LET total == s.Hits + s.Misses
    IN  IF total = 0 THEN Float64(0)
        ELSE FloatMul(FloatDiv(Float64(s.Hits), Float64(total)), Float64(100))

\* The caller applies HitRate to the snapshot its Stats call returned.
HitRateCall(p) ==
    /\ proc[p].pc = "idle"
    /\ ret[p].op = "Stats"
    /\ ret' = [ret EXCEPT ![p] =
                 [op |-> "HitRate", stats |-> ret[p].stats, rate |-> HitRate(ret[p].stats)]]
    /\ UNCHANGED << ttl, maxCapacity, store, size, mutex, heap, pool, hits, misses,
                    evictions, clock, proc, reaper, nops, gets, written, owner, done >>

\* ---------------------------------------------------------------- cleanup

\* The reaper goes on to the next shard, or back to the select.
ReaperNext(expired) ==
    IF reaper.i < Len(shards)
    THEN [reaper EXCEPT !.pc = "rlock", !.i = @ + 1, !.expiredKeys = expired]
    ELSE [reaper EXCEPT !.pc = "select", !.i = 0, !.now = 0, !.expiredKeys = {}]

\* cleanup, lines 240-241: the ticker fires.
ReaperTick ==
    /\ reaper.pc = "select"
    /\ reaper' = [reaper EXCEPT !.pc = "rlock", !.i = 1, !.now = clock]
    /\ UNCHANGED << ttl, maxCapacity, store, size, mutex, heap, pool, hits, misses,
                    evictions, clock, proc, ret, nops, gets, written, owner, done >>

\* cleanup, line 245.
ReaperRLock ==
    /\ reaper.pc = "rlock"
    /\ CanRLock(shards[reaper.i])
    /\ mutex' = RLock(mutex, shards[reaper.i], Reaper)
    /\ reaper' = [reaper EXCEPT !.pc = "scan"]
    /\ UNCHANGED << ttl, maxCapacity, store, size, heap, pool, hits, misses, evictions,
                    clock, proc, ret, nops, gets, written, owner, done >>

Candidates_None(m, hp, now) == {}

\* cleanup, lines 249-254: the keys whose entry has a positive Expiration
\* before the now of the sweep.
Candidates(m, hp, now) == {k \in DOMAIN m : Expired(hp[m[k]].Expiration, now)}

NeedsSweep_Always(expiredKeys) == TRUE

\* cleanup, line 259: if len(expiredKeys) > 0.
NeedsSweep(expiredKeys) == expiredKeys # {}

\* cleanup, lines 246-257: phase 1 collects the expired keys of the shard.
ReaperScan ==
    /\ reaper.pc = "scan"
    /\ LET s == shards[reaper.i]
           expiredKeys == Candidates(store[s], heap, reaper.now)
       IN  /\ mutex' = RUnlock(mutex, s, Reaper)
           /\ reaper' = IF NeedsSweep(expiredKeys)
                        THEN [reaper EXCEPT !.pc = "lock", !.expiredKeys = expiredKeys]
                        ELSE ReaperNext({})
    /\ UNCHANGED << ttl, maxCapacity, store, size, heap, pool, hits, misses, evictions,
                    clock, proc, ret, nops, gets, written, owner, done >>

\* cleanup, line 258.
ReaperLock ==
    /\ reaper.pc = "lock"
    /\ CanLock(shards[reaper.i])
    /\ mutex' = Lock(mutex, shards[reaper.i], Reaper)
    /\ reaper' = [reaper EXCEPT !.pc = "sweep"]
    /\ UNCHANGED << ttl, maxCapacity, store, size, heap, pool, hits, misses, evictions,
                    clock, proc, ret, nops, gets, written, owner, done >>

DoubleChecked_Skipped(expiredKeys, m, hp, now) == expiredKeys \cap DOMAIN m

\* cleanup, lines 261-263: the candidates that are still mapped, to an entry
\* whose Expiration is positive and before the now of the sweep.
DoubleChecked(expiredKeys, m, hp, now) ==
    {k \in expiredKeys : k \in DOMAIN m /\ Expired(hp[m[k]].Expiration, now)}

\* cleanup, lines 259-270: phase 2 deletes the keys that are still expired.
ReaperSweep ==
    /\ reaper.pc = "sweep"
    /\ LET s == shards[reaper.i]
           gone == DoubleChecked(reaper.expiredKeys, store[s], heap, reaper.now)
       IN  /\ store' = [store EXCEPT ![s] = [k \in DOMAIN @ \ gone |-> @[k]]]
           /\ size' = [size EXCEPT ![s] = Shrunk(@, Cardinality(gone))]
           /\ pool' = [e \in EntryIds |->
                         IF e \in {store[s][k] : k \in gone} THEN pool[e] + 1 ELSE pool[e]]
           /\ mutex' = Unlock(mutex, s)
    /\ reaper' = ReaperNext({})
    /\ UNCHANGED << ttl, maxCapacity, heap, hits, misses, evictions, clock, proc, ret,
                    nops, gets, written, owner, done >>

\* cleanup, lines 273-274 and the deferred calls of lines 233 and 236: the
\* select takes the closed done channel, and the goroutine ends with wg.Done().
ReaperExit ==
    /\ reaper.pc = "select"
    /\ done
    /\ reaper' = [reaper EXCEPT !.pc = "exited"]
    /\ UNCHANGED << ttl, maxCapacity, store, size, mutex, heap, pool, hits, misses,
                    evictions, clock, proc, ret, nops, gets, written, owner, done >>

\* ------------------------------------------------------------------ Close

WgAdd_Missing(n) == n

\* NewKVCacheWithCapacity, line 81: cache.wg.Add(1), before go cache.cleanup().
WgAdd(n) == n + 1

\* The count of c.wg: 1 from the wg.Add(1) of the constructor until the cleanup
\* goroutine calls wg.Done().
WgCount == IF reaper.pc = "exited" THEN 0 ELSE WgAdd(0)

WgWait_NoWait(n) == TRUE

\* c.wg.Wait() returns once the count is zero.
WgWait(n) == n = 0

ClosePanics_Never(closed) == FALSE

\* Close, line 226: close(c.done) panics with "close of closed channel" if
\* the channel is closed already; no code guards the call.
ClosePanics(closed) == closed

\* Close, line 226, called on a cache in any state: close(c.done), or the
\* panic of a second close.  The panic unwinds the caller's goroutine, which
\* never reaches line 227; unrecovered it ends the program, and every other
\* goroutine then takes no further step.
CloseCall(p) ==
    /\ proc[p].pc = "idle"
    /\ IF ClosePanics(done)
       THEN /\ proc' = [proc EXCEPT ![p] = [Idle EXCEPT !.pc = "panicked", !.op = "Close"]]
            /\ UNCHANGED done
       ELSE /\ done' = TRUE
            /\ proc' = [proc EXCEPT ![p] =
                          [Idle EXCEPT !.pc = "close_wait", !.op = "Close",
                                       !.during = reaper.pc]]
    /\ ret' = [ret EXCEPT ![p] = NoRet]
    /\ nops' = nops + 1
    /\ UNCHANGED << ttl, maxCapacity, store, size, mutex, heap, pool, hits, misses,
                    evictions, clock, reaper, gets, written, owner >>

\* Close, line 226: close(c.done).  Closing the closed channel panics, so the
\* call is made once; the position of the cleanup goroutine at that moment is
\* recorded.
StartClose(p) ==
    /\ proc[p].pc = "idle"
    /\ ~done
    /\ done' = TRUE
    /\ proc' = [proc EXCEPT ![p] =
                  [Idle EXCEPT !.pc = "close_wait", !.op = "Close", !.during = reaper.pc]]
    /\ ret' = [ret EXCEPT ![p] = NoRet]
    /\ nops' = nops + 1
    /\ UNCHANGED << ttl, maxCapacity, store, size, mutex, heap, pool, hits, misses,
                    evictions, clock, reaper, gets, written, owner >>

\* Close, lines 227-228: c.wg.Wait(); return nil.
CloseWait(p) ==
    /\ proc[p].pc = "close_wait"
    /\ WgWait(WgCount)
    /\ ret' = [ret EXCEPT ![p] = [op |-> "Close", err |-> Nil, during |-> proc[p].during]]
    /\ proc' = [proc EXCEPT ![p] = Idle]
    /\ UNCHANGED << ttl, maxCapacity, store, size, mutex, heap, pool, hits, misses,
                    evictions, clock, reaper, nops, gets, written, owner, done >>

\* ------------------------------------------------------------------- Next

SetCalls(p, K, V, T) == \E k \in K, v \in V, t \in T : StartSet(p, k, v, t)

GetCalls(p, K) == \E k \in K : StartGet(p, k)

DeleteCalls(p, K) == \E k \in K : StartDelete(p, k)

SetMultiCalls(p, M, T) == \E entries \in M, t \in T : StartSetMulti(p, entries, t)

SetSteps(p) == SetLock(p) \/ SetBody(p)

\* The steps a Set takes after an eviction; a cache without a capacity never
\* evicts (line 108).
SetEvictSteps(p) == SetEvictCount(p) \/ SetStore(p)

SetMultiSteps(p) == SetSteps(p) \/ SetMultiReturn(p)

DeleteSteps(p) == DeleteLock(p) \/ DeleteBody(p)

GetMultiCalls(p, M) == \E ks \in M : StartGetMulti(p, ks)

GetSteps(p) ==
    GetRLock(p) \/ GetRead(p) \/ GetTouch(p) \/ GetWLock(p) \/ GetRecheck(p) \/ GetCount(p)

ClearSteps(p) == ClearLock(p) \/ ClearBody(p)

GetMultiSteps(p) == GetSteps(p) \/ GetMultiReturn(p)

SizeSteps(p) == SizeRLock(p) \/ SizeShard(p)

StatsSteps(p) == StatsMisses(p) \/ StatsEvictions(p) \/ SizeSteps(p)

Cleanup == ReaperTick \/ ReaperRLock \/ ReaperScan \/ ReaperLock \/ ReaperSweep

\* A cache without capacity limit and with a positive default TTL: one caller
\* sets "ak" to either value with any TTL argument and "a", a key of another
\* shard, to "v1" with the default TTL, and gets and deletes both keys, while
\* time passes and the cleanup goroutine sweeps.
KeysTwoShards == {KeyAK, KeyA}

Init == \E d \in PositiveTTLs : NewKVCacheWithCapacity(d, 0)

Next ==
    \/ /\ nops < MaxOps
       /\ \/ SetCalls("g1", {KeyAK}, Values, TTLArgs)
          \/ SetCalls("g1", {KeyA}, {"v1"}, {NoTTL})
          \/ GetCalls("g1", KeysTwoShards)
          \/ DeleteCalls("g1", KeysTwoShards)
    \/ SetSteps("g1")
    \/ GetSteps("g1")
    \/ DeleteSteps("g1")
    \/ Cleanup
    \/ Tick

Spec == Init /\ [][Next]_vars

\* Concurrent callers, no capacity limit: the writers g1 and g2 each set a key
\* of their own, both in shard 197, g1 to either value and g2 to "v1", with
\* a TTL of one tick, and the reader g3 gets either key, while time passes and
\* the cleanup goroutine sweeps.
WriterKey == [p \in {"g1", "g2"} |-> IF p = "g1" THEN KeyAK ELSE KeyD4]

KeysWritten == {WriterKey[p] : p \in DOMAIN WriterKey}

WriterValues == [p \in {"g1", "g2"} |-> IF p = "g1" THEN Values ELSE {"v1"}]

NextConc ==
    \/ /\ nops < MaxOps
       /\ \/ \E p \in DOMAIN WriterKey :
                SetCalls(p, {WriterKey[p]}, WriterValues[p], {<<1>>})
          \/ GetCalls("g3", KeysWritten)
    \/ \E p \in Procs : SetSteps(p) \/ GetSteps(p)
    \/ Cleanup
    \/ Tick

SpecConc == Init /\ [][NextConc]_vars


\* A cache with a per-shard capacity: one caller sets, gets and deletes the empty
\* key and two more keys of shard 197 and clears the cache, while time passes
\* and the cleanup goroutine sweeps.
KeysOneShard == {KeyEmpty, KeyAK, KeyD4}

InitCap ==
    \E d \in PositiveTTLs, c \in PositiveCapacities : NewKVCacheWithCapacity(d, c)

NextCap ==
    \/ /\ nops < MaxOps
       /\ \/ SetCalls("g1", KeysOneShard, {"v1"}, {NoTTL, <<1>>})
          \/ GetCalls("g1", KeysOneShard)
          \/ DeleteCalls("g1", KeysOneShard)
          \/ StartClear("g1")
    \/ SetSteps("g1")
    \/ SetEvictSteps("g1")
    \/ GetSteps("g1")
    \/ DeleteSteps("g1")
    \/ ClearSteps("g1")
    \/ Cleanup
    \/ Tick

SpecCap == InitCap /\ [][NextCap]_vars


\* A shard filled to its capacity: the cache was built with a per-shard capacity
\* of six and one caller has set six keys of shard 197 to "v1", one after the
\* other in the order FillOrder starting at its element rot + 1, the first n
\* of them at time 1 with the TTL argument t, the others at time 2 without one.
\* No call of the fill is counted in nops.
FillOrder == <<KeyEmpty, KeyAK, KeyD4, KeyNV, KeyWQ, KeyDT>>

FillKey(rot, i) == FillOrder[((rot + i - 1) % Len(FillOrder)) + 1]

FillIndex(rot, k) == CHOOSE i \in 1..Len(FillOrder) : FillKey(rot, i) = k

Filled(d, rot, n, t) ==
    LET s == getShard[FillOrder[1]]
        at(i) == IF i <= n THEN 1 ELSE 2
        arg(i) == IF i <= n THEN t ELSE NoTTL
        last == FillKey(rot, Len(FillOrder))
    IN  /\ ttl = d
        /\ maxCapacity = Len(FillOrder)
        /\ store = [x \in ShardIds |->
                      IF x = s THEN [k \in Range(FillOrder) |-> FillIndex(rot, k)]
                      ELSE EmptyMap]
        /\ size = [x \in ShardIds |-> IF x = s THEN Len(FillOrder) ELSE 0]
        /\ mutex = [x \in ShardIds |-> [w |-> NoHolder, r |-> {}]]
        /\ heap = [e \in EntryIds |->
                     IF e <= Len(FillOrder)
                     THEN SetEntry(NewEntry, "v1", SetExpiration(at(e), d, arg(e)), at(e))
                     ELSE NewEntry]
        /\ pool = [e \in EntryIds |-> 0]
        /\ hits = 0
        /\ misses = 0
        /\ evictions = 0
        /\ clock = 2
        /\ proc = [p \in Procs |-> Idle]
        /\ reaper = [pc |-> "select", now |-> 0, i |-> 0, expiredKeys |-> {}]
        /\ ret = [p \in Procs |->
                    IF p = "g1"
                    THEN [op |-> "Set", key |-> last, val |-> "v1", existed |-> FALSE,
                          full |-> FALSE, victim |-> {}]
                    ELSE NoRet]
        /\ nops = 0
        /\ gets = 0
        /\ written = [k \in Keys |->
                        IF k \in Range(FillOrder)
                        THEN [set |-> TRUE, val |-> "v1",
                              deadline |-> at(FillIndex(rot, k))
                                             + EffectiveTTL(d, arg(FillIndex(rot, k))),
                              recycled |-> FALSE]
                        ELSE NoWrite]
        /\ owner = [e \in EntryIds |->
                      IF e <= Len(FillOrder) THEN {FillKey(rot, e)} ELSE {}]
        /\ done = FALSE

InitFull ==
    \E d \in PositiveTTLs, rot \in 0..2, n \in 1..2,
       t \in {NoTTL, <<1>>} : Filled(d, rot, n, t)

\* On the full shard the caller sets "JZ", which is new, and "ak", which is
\* present, and gets "ak" and "d4", while time passes; the cleanup goroutine
\* waits for its ticker.
NextFull ==
    \/ /\ nops < MaxOps
       /\ \/ SetCalls("g1", {KeyJZ, KeyAK}, {"v2"}, {NoTTL})
          \/ GetCalls("g1", {KeyAK, KeyD4})
    \/ SetSteps("g1")
    \/ SetEvictSteps("g1")
    \/ GetSteps("g1")
    \/ Tick

SpecFull == InitFull /\ [][NextFull]_vars


\* The counters: one caller sets and deletes "ak", gets keys of both shards one
\* by one and with GetMulti, clears the cache and reads Stats, while time
\* passes and the cleanup goroutine sweeps.
NextStats ==
    \/ /\ nops < MaxOps
       /\ \/ SetCalls("g1", {KeyAK}, {"v1"}, {NoTTL, <<1>>})
          \/ GetCalls("g1", KeysTwoShards)
          \/ GetMultiCalls("g1", GetMultiArgs)
          \/ DeleteCalls("g1", {KeyAK})
          \/ StartClear("g1")
          \/ StartStats("g1")
    \/ SetSteps("g1")
    \/ GetMultiSteps("g1")
    \/ DeleteSteps("g1")
    \/ ClearSteps("g1")
    \/ StatsSteps("g1")
    \/ Cleanup
    \/ Tick

SpecStats == Init /\ [][NextStats]_vars


\* A cache without capacity limit: one caller sets batches of up to two pairs
\* with SetMulti, reads the keys back with Get and counts the entries with
\* Size, while time passes.
SetMultiArgs ==
    {EmptyMap,
     MapPut(MapPut(EmptyMap, KeyAK, "v2"), KeyD4, "v1"),
     MapPut(MapPut(EmptyMap, KeyAK, "v1"), KeyA, "v2")}

NextMulti ==
    \/ /\ nops < MaxOps
       /\ \/ SetMultiCalls("g1", SetMultiArgs, {NoTTL, <<1>>})
          \/ GetCalls("g1", {KeyD4})
          \/ StartSize("g1")
    \/ SetMultiSteps("g1")
    \/ GetSteps("g1")
    \/ SizeSteps("g1")
    \/ Tick

SpecMulti == Init /\ [][NextMulti]_vars


\* A cache that is closed: one caller sets and gets "ak" with a TTL of one
\* tick and calls Close once, while time passes and the cleanup goroutine
\* sweeps until it takes the closed done channel.
NextClose ==
    \/ /\ nops < MaxOps
       /\ \/ SetCalls("g1", {KeyAK}, {"v1"}, {<<1>>})
          \/ GetCalls("g1", {KeyAK})
          \/ StartClose("g1")
    \/ SetSteps("g1")
    \/ GetSteps("g1")
    \/ CloseWait("g1")
    \/ Cleanup
    \/ ReaperExit
    \/ Tick

SpecClose == Init /\ [][NextClose]_vars

\* Every goroutine that can run is run in the end: the caller's steps and the
\* sweep of the cleanup goroutine are weakly fair.  The select of cleanup
\* chooses among its ready cases at random, so the done case, ready at every
\* return to the select once the channel is closed, is taken in the end.
FairClose ==
    /\ WF_vars(SetSteps("g1") \/ GetSteps("g1") \/ CloseWait("g1"))
    /\ WF_vars(Cleanup)
    /\ SF_vars(ReaperExit)

SpecCloseFair == SpecClose /\ FairClose


\* A cache left to the cleanup goroutine: one caller sets "ak" and "a", keys
\* of two shards, with a TTL of one tick, never gets or deletes them, and may
\* call Close once, while time passes and the cleanup goroutine sweeps.
NextReap ==
    \/ /\ nops < MaxOps
       /\ \/ SetCalls("g1", KeysTwoShards, {"v1"}, {<<1>>})
          \/ StartClose("g1")
    \/ SetSteps("g1")
    \/ CloseWait("g1")
    \/ Cleanup
    \/ ReaperExit
    \/ Tick

SpecReap == Init /\ [][NextReap]_vars

\* The caller's goroutine runs when it can, and so does the cleanup goroutine,
\* whose ticker keeps firing.
FairReap ==
    /\ WF_vars(SetSteps("g1") \/ CloseWait("g1"))
    /\ WF_vars(Cleanup)

SpecReapFair == SpecReap /\ FairReap


\* Callers and the cleanup goroutine contending for the mutexes of two
\* shards: g1 sets "ak" with a TTL of one tick, gets it and deletes it, g2
\* clears the cache and takes Size and Stats, while time passes and the
\* cleanup goroutine sweeps.  A call that has been made waits for its first
\* lock like for any later one.
NextLock ==
    \/ /\ nops < MaxOps
       /\ \/ SetCalls("g1", {KeyAK}, {"v1"}, {<<1>>})
          \/ DeleteCalls("g1", {KeyAK})
          \/ StartClear("g2")
          \/ StartSize("g2")
          \/ StartStats("g2")
          \/ GetCalls("g1", {KeyAK})
    \/ SetSteps("g1")
    \/ DeleteSteps("g1")
    \/ ClearSteps("g2")
    \/ StatsSteps("g2")
    \/ GetSteps("g1")
    \/ Cleanup
    \/ Tick

SpecLock == Init /\ [][NextLock]_vars

\* Fair lock scheduling: a caller whose Lock or RLock can succeed again and
\* again is granted it in the end (sync.RWMutex lets no waiter starve), and
\* the cleanup goroutine runs when it can.
FairLock ==
    /\ SF_vars(SetSteps("g1") \/ DeleteSteps("g1") \/ GetSteps("g1"))
    /\ SF_vars(ClearSteps("g2") \/ StatsSteps("g2"))
    /\ WF_vars(Cleanup)

SpecLockFair == SpecLock /\ FairLock


\* Two writers on one key: g1 sets "ak" to "v1", g2 sets it to "v2" and
\* deletes it, g3 gets it, while time passes and the cleanup goroutine sweeps.
NextOrder ==
    \/ /\ nops < MaxOps
       /\ \/ SetCalls("g1", {KeyAK}, {"v1"}, {NoTTL, <<1>>})
          \/ SetCalls("g2", {KeyAK}, {"v2"}, {NoTTL})
          \/ DeleteCalls("g2", {KeyAK})
          \/ GetCalls("g3", {KeyAK})
    \/ SetSteps("g1")
    \/ SetSteps("g2")
    \/ DeleteSteps("g2")
    \/ GetSteps("g3")
    \/ Cleanup
    \/ Tick

SpecOrder == Init /\ [][NextOrder]_vars


\* A Clear among other callers, on a cache in which, at time 1, "a" was set to
\* "v1" without a TTL argument and "ak" to "v1" with a TTL of 1, one key in
\* each shard: g2 clears the cache, g1 sets "a", a key of the shard Clear
\* empties first, and g3 gets either key, while time passes and the cleanup
\* goroutine sweeps.  The Sets of the initial state are not counted in nops.
InitClear ==
    \E d \in PositiveTTLs :
        /\ ttl = d
        /\ maxCapacity = 0
        /\ store = [s \in ShardIds |->
                      IF s = getShard[KeyAK] THEN MapPut(EmptyMap, KeyAK, 1)
                      ELSE MapPut(EmptyMap, KeyA, 2)]
        /\ size = [s \in ShardIds |-> 1]
        /\ mutex = [s \in ShardIds |-> [w |-> NoHolder, r |-> {}]]
        /\ heap = [e \in EntryIds |->
                     IF e = 1 THEN SetEntry(NewEntry, "v1", SetExpiration(1, d, <<1>>), 1)
                     ELSE IF e = 2 THEN SetEntry(NewEntry, "v1", SetExpiration(1, d, NoTTL), 1)
                     ELSE NewEntry]
        /\ pool = [e \in EntryIds |-> 0]
        /\ hits = 0
        /\ misses = 0
        /\ evictions = 0
        /\ clock = 1
        /\ proc = [p \in Procs |-> Idle]
        /\ reaper = [pc |-> "select", now |-> 0, i |-> 0, expiredKeys |-> {}]
        /\ ret = [p \in Procs |->
                    IF p = "g1"
                    THEN [op |-> "Set", key |-> KeyAK, val |-> "v1", existed |-> FALSE,
                          full |-> FALSE, victim |-> {}]
                    ELSE NoRet]
        /\ nops = 0
        /\ gets = 0
        /\ written = [k \in Keys |->
                        IF k = KeyAK
                        THEN [set |-> TRUE, val |-> "v1",
                              deadline |-> 1 + EffectiveTTL(d, <<1>>), recycled |-> FALSE]
                        ELSE IF k = KeyA
                        THEN [set |-> TRUE, val |-> "v1",
                              deadline |-> 1 + EffectiveTTL(d, NoTTL), recycled |-> FALSE]
                        ELSE NoWrite]
        /\ owner = [e \in EntryIds |-> IF e = 1 THEN {KeyAK} ELSE IF e = 2 THEN {KeyA} ELSE {}]
        /\ done = FALSE

NextClear ==
    \/ /\ nops < MaxOps
       /\ \/ SetCalls("g1", {KeyA}, {"v2"}, {NoTTL})
          \/ StartClear("g2")
          \/ GetCalls("g3", KeysTwoShards)
    \/ SetSteps("g1")
    \/ ClearSteps("g2")
    \/ GetSteps("g3")
    \/ Cleanup
    \/ Tick

SpecClear == InitClear /\ [][NextClear]_vars


\* A SetMulti among readers, on a cache without capacity limit and with a
\* positive default TTL: g1 sets a batch of two keys of two shards with a TTL
\* of 1, g2 gets "ak", a key of the batch, and g3 gets "a" and "ak" with
\* GetMulti, while time passes.
BatchArgs == {MapPut(MapPut(EmptyMap, KeyAK, "v1"), KeyA, "v2")}

NextBatch ==
    \/ /\ nops < MaxOps
       /\ \/ SetMultiCalls("g1", BatchArgs, {<<1>>})
          \/ GetCalls("g2", {KeyAK})
          \/ GetMultiCalls("g3", {<<KeyA, KeyAK>>})
    \/ SetMultiSteps("g1")
    \/ GetSteps("g2")
    \/ GetMultiSteps("g3")
    \/ Tick

SpecBatch == Init /\ [][NextBatch]_vars


\* HitRate on its inputs: a cache that has counted h hits and m misses and
\* holds no entry any more; the caller takes a Stats snapshot and applies
\* HitRate to it.
InitHitRate ==
    \E d \in PositiveTTLs, h \in 0..MaxCount, m \in 0..MaxCount :
        /\ hits = h
        /\ misses = m
        /\ gets = h + m
        /\ ttl = d
        /\ maxCapacity = 0
        /\ store = [s \in ShardIds |-> EmptyMap]
        /\ size = [s \in ShardIds |-> 0]
        /\ mutex = [s \in ShardIds |-> [w |-> NoHolder, r |-> {}]]
        /\ heap = [e \in EntryIds |-> NewEntry]
        /\ pool = [e \in EntryIds |-> 0]
        /\ evictions = 0
        /\ clock = 1
        /\ proc = [p \in Procs |-> Idle]
        /\ reaper = [pc |-> "select", now |-> 0, i |-> 0, expiredKeys |-> {}]
        /\ ret = [p \in Procs |-> NoRet]
        /\ nops = 0
        /\ written = [k \in Keys |-> NoWrite]
        /\ owner = [e \in EntryIds |-> {}]
        /\ done = FALSE

NextHitRate ==
    \/ nops = 0 /\ StartStats("g1")
    \/ StatsSteps("g1")
    \/ HitRateCall("g1")

SpecHitRate == InitHitRate /\ [][NextHitRate]_vars


\* Removal: one caller sets, gets and deletes "ak" and "d4", two keys of one
\* shard, clears the cache and reads its Size, while time passes and the
\* cleanup goroutine sweeps.
KeysPair == {KeyAK, KeyD4}

NextDel ==
    \/ /\ nops < MaxOps
       /\ \/ SetCalls("g1", KeysPair, {"v1"}, {NoTTL, <<1>>})
          \/ GetCalls("g1", KeysPair)
          \/ DeleteCalls("g1", KeysPair)
          \/ StartClear("g1")
          \/ StartSize("g1")
    \/ SetSteps("g1")
    \/ GetSteps("g1")
    \/ DeleteSteps("g1")
    \/ ClearSteps("g1")
    \/ SizeSteps("g1")
    \/ Cleanup
    \/ Tick

SpecDel == Init /\ [][NextDel]_vars


\* Callers racing on one shard of a cache with a capacity of one per shard:
\* g1 sets "ak" and "d4" with a TTL of one tick, g2 and g3 get "ak", g2 also
\* deletes it and clears the cache, while time passes and the cleanup
\* goroutine sweeps.
InitRace == \E d \in PositiveTTLs : NewKVCacheWithCapacity(d, 1)

NextRace ==
    \/ /\ nops < MaxOps
       /\ \/ SetCalls("g1", KeysPair, {"v1"}, {<<1>>})
          \/ GetCalls("g2", {KeyAK})
          \/ GetCalls("g3", {KeyAK})
          \/ DeleteCalls("g2", {KeyAK})
          \/ StartClear("g2")
    \/ SetSteps("g1")
    \/ SetEvictSteps("g1")
    \/ GetSteps("g2")
    \/ GetSteps("g3")
    \/ DeleteSteps("g2")
    \/ ClearSteps("g2")
    \/ Cleanup
    \/ Tick

SpecRace == InitRace /\ [][NextRace]_vars


\* The pool among callers of two shards: the callers of SpecRace, and g3 also
\* sets "a", a key of the other shard, which no mutex of g1 stops: its
\* entryPool.Get can fall between the Put and the Get of an evicting Set.
NextPool ==
    \/ nops < MaxOps /\ SetCalls("g3", {KeyA}, {"v1"}, {<<1>>})
    \/ SetSteps("g3")
    \/ NextRace

SpecPool == InitRace /\ [][NextPool]_vars


\* The counters under every kind of removal: on a cache with a capacity of
\* one per shard, one caller sets "ak" and "d4", two keys of one shard, with a
\* TTL of one tick, gets and deletes "ak", clears the cache and closes it,
\* while time passes and the cleanup goroutine sweeps until it takes the
\* closed done channel.
NextCount ==
    \/ /\ nops < MaxOps
       /\ \/ SetCalls("g1", KeysPair, {"v1"}, {<<1>>})
          \/ GetCalls("g1", {KeyAK})
          \/ DeleteCalls("g1", {KeyAK})
          \/ StartClear("g1")
          \/ StartClose("g1")
    \/ SetSteps("g1")
    \/ SetEvictSteps("g1")
    \/ GetSteps("g1")
    \/ DeleteSteps("g1")
    \/ ClearSteps("g1")
    \/ CloseWait("g1")
    \/ Cleanup
    \/ ReaperExit
    \/ Tick

SpecCount == InitRace /\ [][NextCount]_vars


\* Counting entries: on a cache with or without a capacity of one per shard,
\* one caller sets "ak" and "d4", two keys of one shard, with a TTL of one
\* tick, gets and deletes "ak", clears the cache and reads Size and Stats,
\* while time passes and the cleanup goroutine sweeps.
SizeCapacities == {0, 1}

InitSize == \E d \in PositiveTTLs, c \in SizeCapacities : NewKVCacheWithCapacity(d, c)

NextSize ==
    \/ /\ nops < MaxOps
       /\ \/ SetCalls("g1", KeysPair, {"v1"}, {<<1>>})
          \/ GetCalls("g1", {KeyAK})
          \/ DeleteCalls("g1", {KeyAK})
          \/ StartClear("g1")
          \/ StartSize("g1")
          \/ StartStats("g1")
    \/ SetSteps("g1")
    \/ SetEvictSteps("g1")
    \/ GetSteps("g1")
    \/ DeleteSteps("g1")
    \/ ClearSteps("g1")
    \/ StatsSteps("g1")
    \/ Cleanup
    \/ Tick

SpecSize == InitSize /\ [][NextSize]_vars


\* A cache in use after Close: with or without a capacity of one per shard,
\* one caller closes the cache once and, before or after that, sets "ak" and
\* "d4", two keys of one shard, with a TTL of one tick, gets and deletes "ak",
\* clears the cache and reads its Size and its Stats, while time passes and
\* the cleanup goroutine sweeps until it takes the closed done channel.
NextAfter ==
    \/ /\ nops < MaxOps
       /\ \/ StartClose("g1")
          \/ SetCalls("g1", KeysPair, {"v1"}, {<<1>>})
          \/ GetCalls("g1", {KeyAK})
          \/ DeleteCalls("g1", {KeyAK})
          \/ StartClear("g1")
          \/ StartSize("g1")
          \/ StartStats("g1")
    \/ CloseWait("g1")
    \/ SetSteps("g1")
    \/ SetEvictSteps("g1")
    \/ GetSteps("g1")
    \/ DeleteSteps("g1")
    \/ ClearSteps("g1")
    \/ StatsSteps("g1")
    \/ Cleanup
    \/ ReaperExit
    \/ Tick

SpecAfter == InitSize /\ [][NextAfter]_vars


\* Close called twice: g1 sets "ak" with a TTL of one tick and calls Close, any
\* number of times, and g2 calls Close as well, while time passes and the
\* cleanup goroutine sweeps until it takes the closed done channel.
NextTwice ==
    \/ /\ nops < MaxOps
       /\ \/ SetCalls("g1", {KeyAK}, {"v1"}, {<<1>>})
          \/ CloseCall("g1")
          \/ CloseCall("g2")
    \/ SetSteps("g1")
    \/ CloseWait("g1")
    \/ CloseWait("g2")
    \/ Cleanup
    \/ ReaperExit
    \/ Tick

SpecTwice == Init /\ [][NextTwice]_vars


\* Sets without a positive TTL argument, on a cache built with a default TTL
\* of 0 or of 2: one caller sets "ak" with no TTL argument, with -1 or with 0
\* and gets it, while time passes and the cleanup goroutine sweeps.
NonPositiveTTLArgs == {t \in TTLArgs : t = NoTTL \/ t[1] <= 0}

InitZero == \E d \in DefaultTTLs : NewKVCacheWithCapacity(d, 0)

NextZero ==
    \/ /\ nops < MaxOps
       /\ \/ SetCalls("g1", {KeyAK}, Values, NonPositiveTTLArgs)
          \/ GetCalls("g1", {KeyAK})
    \/ SetSteps("g1")
    \/ GetSteps("g1")
    \/ Cleanup
    \/ Tick

SpecZero == InitZero /\ [][NextZero]_vars


\* Eviction among expired entries: on a cache with a capacity of one or two
\* per shard, one caller sets the empty key, "ak" and "d4", three keys of one
\* shard, with or without a TTL of one tick, and gets "ak", while time
\* passes; the cleanup goroutine waits for its ticker.
NextEvict ==
    \/ /\ nops < MaxOps
       /\ \/ SetCalls("g1", KeysOneShard, {"v1"}, {NoTTL, <<1>>})
          \/ GetCalls("g1", {KeyAK})
    \/ SetSteps("g1")
    \/ SetEvictSteps("g1")
    \/ GetSteps("g1")
    \/ Tick

SpecEvict == InitCap /\ [][NextEvict]_vars


\* ----------------------------------------------------------------- claims

\* Caller p's Get of key k releases the shared lock in this step, lines 136,
\* 147 and 171, and its result is fixed: found with the value it copied, or
\* not found, at once or after the upgrade.
GetDecides(p, k) ==
    /\ proc[p].pc \in {"get_read", "get_touch"}
    /\ proc[p].key = k
    /\ proc'[p].pc \in {"get_count", "get_wlock"}

DecidedFound(p) == proc'[p].pc = "get_count" /\ proc'[p].found

DecidedValue(p) == proc'[p].val

\* The time of the Get that decides in this step: the time it read at line
\* 143, or the time at which it finds the key absent.
DecidedTime(p) == IF proc[p].pc = "get_touch" THEN proc[p].now ELSE clock

\* Caller p completes a Get of key k in this step: it counts the hit or the
\* miss and returns.
GetCompletes(p, k) ==
    /\ proc[p].pc = "get_count"
    /\ proc[p].key = k
    /\ proc'[p] # proc[p]
    /\ gets' = gets + 1

\* A Get that completes returns what it fixed when it released the lock.
ReturnsDecided(p) ==
    (proc[p].pc = "get_count" /\ proc'[p] # proc[p])
        => ret'[p] = [op |-> "Get", key |-> proc[p].key, val |-> proc[p].val,
                      found |-> proc[p].found, removed |-> proc[p].removed]

\* C1: a Get of k that holds the shared lock while the last Set(k, v) is not
\* undone (no Delete, Clear or eviction of k since) and reads a time at which
\* its deadline has not passed fixes (v, true) as its result, whatever entry
\* the Set took from the pool, and returns that result.
C1_RoundTrip ==
    [][\A p \in Procs, k \in Keys :
         /\ (GetDecides(p, k) /\ written[k].set /\ DecidedTime(p) <= written[k].deadline)
               => /\ DecidedFound(p)
                  /\ DecidedValue(p) = written[k].val
                  /\ ~proc'[p].removed
         /\ ReturnsDecided(p)]_vars

\* A Get has returned the value of a Set whose entry came out of the pool after
\* holding another key's value.
C1_Witness ==
    \E p \in Procs, k \in Keys :
        /\ written[k].set
        /\ written[k].recycled
        /\ ret[p] = [op |-> "Get", key |-> k, val |-> written[k].val, found |-> TRUE,
                     removed |-> FALSE]

\* C2: while the last Set of k is not undone, a Get of k fixes found as its
\* result exactly if the time now it reads is <= t + d, the deadline of that
\* Set, and it returns found exactly if it fixed found.
C2_Deadline ==
    [][\A p \in Procs, k \in Keys :
         /\ (GetDecides(p, k) /\ written[k].set)
               => (DecidedFound(p) <=> DecidedTime(p) <= written[k].deadline)
         /\ GetCompletes(p, k) => ret'[p].found = proc[p].found]_vars

\* A Get has reported the key not found after its deadline, the entry being
\* in the map until that Get removed it.
C2_Witness ==
    \E p \in Procs, k \in Keys :
        /\ written[k].set
        /\ clock > written[k].deadline
        /\ ret[p] = [op |-> "Get", key |-> k, val |-> Nil, found |-> FALSE,
                     removed |-> TRUE]

\* C3: the Expiration of a mapped entry is the time of its last Set plus the
\* per-call TTL if one was passed and positive, plus the default TTL otherwise.
C3_PerCallTTL ==
    \A k \in Keys :
        (written[k].set /\ k \in DOMAIN store[getShard[k]])
            => heap[store[getShard[k]][k]].Expiration = written[k].deadline

\* Key a was set with a per-call TTL shorter than the default and key b with
\* the default TTL: a Get reports a gone while b is still mapped and alive.
C3_Witness ==
    \E p \in Procs, a \in Keys, b \in Keys :
        /\ written[a].set /\ written[b].set
        /\ written[a].deadline < clock /\ clock <= written[b].deadline
        /\ ret[p] = [op |-> "Get", key |-> a, val |-> Nil, found |-> FALSE,
                     removed |-> TRUE]
        /\ b \in DOMAIN store[getShard[b]]
        /\ heap[store[getShard[b]][b]].Expiration =
              heap[store[getShard[b]][b]].lastAccess + ttl


\* The mutex of shard s is held only by goroutines that are inside the section
\* it guards.
HeldByRunning(s) ==
    /\ mutex[s].w # NoHolder =>
         \/ mutex[s].w = Reaper /\ reaper.pc = "sweep" /\ shards[reaper.i] = s
         \/ /\ mutex[s].w \in Procs
            /\ proc[mutex[s].w].pc \in {"set_body", "set_evicted", "set_store",
                                         "get_recheck", "delete_body"}
            /\ getShard[proc[mutex[s].w].key] = s
         \/ /\ mutex[s].w \in Procs
            /\ proc[mutex[s].w].pc = "clear_body"
            /\ shards[proc[mutex[s].w].i] = s
    /\ \A g \in mutex[s].r :
         \/ g = Reaper /\ reaper.pc = "scan" /\ shards[reaper.i] = s
         \/ /\ g \in Procs
            /\ proc[g].pc \in {"get_read", "get_touch"}
            /\ getShard[proc[g].key] = s

\* A step of a pending Set or Get, or a step in which cleanup releases a mutex.
ProgressConc ==
    \/ \E p \in Procs : SetSteps(p) \/ GetSteps(p)
    \/ ReaperScan
    \/ ReaperSweep

\* C4: with writers setting distinct keys and readers getting concurrently and
\* no capacity limit, every mutex is held only by a goroutine inside its
\* section and some pending call or lock holder can always take a step (no
\* interleaving blocks: all calls complete), and a Get that reads the shard
\* map after every other call has completed, before the deadline, finds each
\* written key with the value last written to it and returns it.
C4_ConcurrentSetGet ==
    [][/\ \A s \in ShardIds : HeldByRunning(s)
       /\ (\E p \in Procs : proc[p].pc # "idle") => ENABLED ProgressConc
       /\ \A p \in Procs, k \in Keys :
            /\ (/\ GetDecides(p, k)
                /\ written[k].set
                /\ DecidedTime(p) <= written[k].deadline
                /\ \A q \in Procs \ {p} : proc[q].pc = "idle")
                  => DecidedFound(p) /\ DecidedValue(p) = written[k].val
            /\ (GetCompletes(p, k) /\ \A q \in Procs \ {p} : proc[q].pc = "idle")
                  => ret'[p] = [op |-> "Get", key |-> k, val |-> proc[p].val,
                                found |-> proc[p].found, removed |-> proc[p].removed]]_vars

\* Both writers have written their keys, all calls have completed, and a Get
\* has then found a written key with its value.
C4_Witness ==
    \E p \in Procs, k \in KeysWritten :
        /\ \A q \in Procs : proc[q].pc = "idle"
        /\ \A w \in DOMAIN WriterKey : ret[w].op = "Set" /\ written[WriterKey[w]].set
        /\ ret[p] = [op |-> "Get", key |-> k, val |-> written[k].val, found |-> TRUE,
                     removed |-> FALSE]

\* C5: in a cache built with a per-shard capacity, no shard holds more entries
\* than the capacity whenever no Set holds the shard's lock, whatever calls and
\* cleanup steps were made, over the empty key as over any other.
C5_CapacityBound ==
    \A s \in ShardIds :
        (/\ maxCapacity > 0
         /\ ~\E p \in Procs : /\ proc[p].pc \in {"set_body", "set_evicted", "set_store"}
                               /\ getShard[proc[p].key] = s)
           => size[s] <= maxCapacity /\ Cardinality(DOMAIN store[s]) <= maxCapacity

\* Caller p's Set, holding the lock of shard s, checks the capacity in this
\* step: it evicts if it has to, and if it evicts nothing it goes on to store
\* its key and returns.
SetChecks(p, s) ==
    /\ proc[p].pc = "set_body"
    /\ proc'[p].pc # "set_body"
    /\ getShard[proc[p].key] = s

\* Caller p's Set counts in this step the eviction it has made on shard s.
SetCounts(p, s) ==
    /\ proc[p].pc = "set_evicted"
    /\ proc'[p].pc # "set_evicted"
    /\ getShard[proc[p].key] = s

\* Caller p's Set stores its key in shard s and returns in this step, having
\* evicted and counted before.
SetStores(p, s) ==
    /\ proc[p].pc = "set_store"
    /\ proc'[p].pc # "set_store"
    /\ getShard[proc[p].key] = s

\* Caller p's Set of a key completes in this step, on shard s.
SetCompletes(p, s) ==
    /\ proc[p].pc \in {"set_body", "set_store"}
    /\ proc'[p].pc = "idle"
    /\ getShard[proc[p].key] = s

\* The keys a step removes from shard s.
Removed(s) == DOMAIN store[s] \ DOMAIN store'[s]

LastAccess(s, k) == heap[store[s][k]].lastAccess

\* C6: a Set on a key that is in its shard's map evicts nothing, also when the
\* shard is full: the evictions counter, the shard's size, its key set and the
\* entry of every other key stay as they are, at every repetition.
C6_UpdateNeverEvicts ==
    [][\A p \in Procs, s \in ShardIds :
         (SetChecks(p, s) /\ proc[p].key \in DOMAIN store[s])
            => /\ proc'[p].pc # "set_evicted"
               /\ evictions' = evictions
               /\ size'[s] = size[s]
               /\ DOMAIN store'[s] = DOMAIN store[s]
               /\ \A j \in DOMAIN store[s] \ {proc[p].key} :
                    /\ store'[s][j] = store[s][j]
                    /\ heap'[store[s][j]] = heap[store[s][j]]]_vars

\* The caller has set "ak" twice on the full shard and nothing else: the
\* shard still holds the six keys of the fill and nothing was evicted.
C6_Witness ==
    /\ nops = 2
    /\ gets = 0
    /\ ret["g1"] = [op |-> "Set", key |-> KeyAK, val |-> "v2", existed |-> TRUE,
                    full |-> TRUE, victim |-> {}]
    /\ size[getShard[KeyAK]] = maxCapacity
    /\ DOMAIN store[getShard[KeyAK]] = Range(FillOrder)
    /\ heap[store[getShard[KeyAK]][KeyAK]].Value = "v2"
    /\ evictions = 0

\* C7: a Set that inserts a new key into a shard holding exactly its capacity
\* removes exactly one other entry, raises evictions by one, leaves the size at
\* the capacity and leaves the new key mapped to its value and deadline: its
\* check removes one entry and goes on to count, the count adds one, and the
\* store brings the size back to the capacity.
C7_OverflowEvictsOne ==
    [][\A p \in Procs, s \in ShardIds :
         /\ (/\ SetChecks(p, s)
             /\ maxCapacity > 0
             /\ size[s] = maxCapacity
             /\ proc[p].key \notin DOMAIN store[s])
               => /\ Cardinality(Removed(s)) = 1
                  /\ proc[p].key \notin Removed(s)
                  /\ proc'[p].pc = "set_evicted"
                  /\ size'[s] = maxCapacity - 1
         /\ SetCounts(p, s) => evictions' = evictions + 1
         /\ SetStores(p, s)
               => /\ size'[s] = size[s] + 1
                  /\ proc[p].key \in DOMAIN store'[s]
                  /\ heap'[store'[s][proc[p].key]].Value = proc[p].val
                  /\ heap'[store'[s][proc[p].key]].Expiration = proc[p].exp]_vars

\* C8 as stated: the entry an inserting Set removes from a full shard has the
\* oldest last access of all entries of the shard.
C8_TrueLRU ==
    [][\A p \in Procs, s \in ShardIds :
         SetChecks(p, s)
            => \A v \in Removed(s), j \in DOMAIN store[s] :
                  LastAccess(s, v) <= LastAccess(s, j)]_vars

\* C8 amended: a Set that inserts a new key into a full shard examines
\* sampleSize entries of the shard, or all if there are fewer; an examined
\* entry with the oldest last access among the examined ones is the one
\* removed, unless its key is the empty string: then nothing is removed.
C8_SampledLRU ==
    [][\A p \in Procs, s \in ShardIds :
         (/\ SetChecks(p, s)
          /\ maxCapacity > 0
          /\ size[s] >= maxCapacity
          /\ proc[p].key \notin DOMAIN store[s])
            => \E S \in SUBSET DOMAIN store[s] :
                 /\ Cardinality(S) = Min(sampleSize, Cardinality(DOMAIN store[s]))
                 /\ \E o \in S :
                      /\ \A j \in S : LastAccess(s, o) <= LastAccess(s, j)
                      /\ Removed(s) = IF o = KeyEmpty THEN {} ELSE {o}]_vars

\* "JZ" was inserted into the full shard and the entry removed for it is not
\* the least recently used one: an entry with an older last access is left.
C8_Witness ==
    LET s == getShard[KeyJZ]
    IN  /\ ret["g1"].op = "Set"
        /\ ret["g1"].key = KeyJZ
        /\ ret["g1"].victim # {}
        /\ evictions = 1
        /\ nops = 1
        /\ \E j \in DOMAIN store[s] : heap[store[s][j]].lastAccess = 1
        /\ \A v \in ret["g1"].victim : written[v] = NoWrite /\ v \notin DOMAIN store[s]

\* C9: a step that completes a Get raises hits by one and leaves misses if
\* the Get returns found, raises misses by one and leaves hits if it returns
\* not found; no other step, of Get, Set, Delete, Clear or any other call,
\* changes either counter; so hits + misses is the number of completed Gets,
\* a GetMulti counting one Get for every key of its list.
C9_HitMissAccounting ==
    [][/\ hits + misses = gets
       /\ hits' + misses' = gets'
       /\ gets' = gets => hits' = hits /\ misses' = misses
       /\ \A p \in Procs :
            (proc[p].pc = "get_count" /\ gets' = gets + 1)
               => /\ ret'[p].op = "Get"
                  /\ ret'[p].found => hits' = hits + 1 /\ misses' = misses
                  /\ ~ret'[p].found => misses' = misses + 1 /\ hits' = hits]_vars

\* A GetMulti of "a" and "ak" has returned with one key found and one not,
\* after a Set: one hit and one miss are counted.
C9_Witness ==
    /\ ret["g1"].op = "GetMulti"
    /\ ret["g1"].keys = <<KeyA, KeyAK>>
    /\ DOMAIN ret["g1"].result = {KeyAK}
    /\ hits = 1
    /\ misses = 1
    /\ gets = 2

\* The rate r times t is exactly 100 * h.
ExactRate(r, h, t) ==
    IF h = 0 THEN r = FloatZero
    ELSE /\ r.mant # << >>
         /\ r.exp <= 0
         /\ BigMulAdd(r.mant, t, 0) = BitsOf(100 * h) \o [i \in 1..(0 - r.exp) |-> 0]

\* The rate r is within the rounding of one division and one multiplication
\* of 100 * h / t: |r * t - 100 * h| <= 100 * h * 2^-52, both sides taken
\* times 2^(6 - r.exp) to stay with whole numbers.
NearRate(r, h, t) ==
    IF h = 0 THEN r = FloatZero
    ELSE /\ Len(r.mant) = MantBits
         /\ r.mant[1] = 1
         /\ r.exp \in (0 - MantBits)..(6 - MantBits + 1)
         /\ LET exact == BitsOf(100 * h) \o [i \in 1..(6 - r.exp) |-> 0]
                bound == 100 * h * Pow2(0 - r.exp - (MantBits - 7))
            IN  /\ BigLeq(exact, BigMulAdd(r.mant, 64 * t, bound))
                /\ BigLeq(BigMulAdd(r.mant, 64 * t, 0), BigMulAdd(exact, 1, bound))

\* C10: HitRate of a snapshot with h hits and m misses is 0 if h is 0, also
\* when h + m is 0, and otherwise the float64 that differs from
\* 100 * h / (h + m) by at most 2^-52 of it, the rounding of the division and
\* of the multiplication; of 1 hit and 1 miss it is 50, of 80 hits and 20
\* misses 80.
C10_HitRate ==
    \A p \in Procs :
        ret[p].op = "HitRate" =>
            LET h == ret[p].stats.Hits
                m == ret[p].stats.Misses
                r == ret[p].rate
            IN  /\ NearRate(r, h, h + m)
                /\ (h = 1 /\ m = 1) => r = Float64(50)
                /\ (h = 80 /\ m = 20) => r = Float64(80)

\* HitRate has returned 28 and one unit in the last place, 28.000000000000004,
\* for a snapshot of 7 hits and 18 misses.
C10_Witness ==
    /\ ret["g1"].op = "HitRate"
    /\ ret["g1"].stats.Hits = 7
    /\ ret["g1"].stats.Misses = 18
    /\ ret["g1"].rate = [Float64(28) EXCEPT !.mant = BigMulAdd(@, 1, 1)]

\* C10 as stated: HitRate of a snapshot equals hits / (hits + misses) x 100.
C10_ExactRatio ==
    \A p \in Procs :
        ret[p].op = "HitRate" =>
            ExactRate(ret[p].rate, ret[p].stats.Hits,
                      ret[p].stats.Hits + ret[p].stats.Misses)

\* Caller p's Delete of key k completes in this step.
DeleteCompletes(p, k) ==
    /\ proc[p].pc = "delete_body"
    /\ proc[p].key = k
    /\ proc'[p].pc = "idle"

\* C11: a Delete of a present key takes the key out of its shard's map, lowers
\* the shard's size by one, puts the entry into the pool and leaves every
\* other key, entry and shard as it is; and a Get that holds the shared lock
\* on a key whose last Set was undone (by Delete) and not repeated fixes not
\* found as its result and returns it.
C11_DeletePresent ==
    [][\A p \in Procs, k \in Keys :
         LET s == getShard[k]
         IN  /\ (DeleteCompletes(p, k) /\ k \in DOMAIN store[s])
                   => /\ store'[s] = [j \in DOMAIN store[s] \ {k} |-> store[s][j]]
                      /\ size'[s] = size[s] - 1
                      /\ \A e \in EntryIds :
                           pool'[e] = IF e = store[s][k] THEN pool[e] + 1 ELSE pool[e]
                      /\ heap' = heap
                      /\ \A x \in ShardIds \ {s} : store'[x] = store[x] /\ size'[x] = size[x]
             /\ (GetDecides(p, k) /\ ~written[k].set) => ~DecidedFound(p)
             /\ ReturnsDecided(p)]_vars

\* "ak" has been deleted while "d4" is in the same shard: "d4" is still
\* mapped and the entry of "ak" lies in the pool.
C11_Witness ==
    /\ ret["g1"] = [op |-> "Delete", key |-> KeyAK, existed |-> TRUE]
    /\ DOMAIN store[getShard[KeyAK]] = {KeyD4}
    /\ size[getShard[KeyAK]] = 1
    /\ \E e \in EntryIds : owner[e] = {KeyAK} /\ pool[e] = 1

\* C12: a Delete of a key that is not in its shard's map returns and leaves
\* every map, size and entry, the pool and the three counters as they are.
C12_DeleteAbsent ==
    [][\A p \in Procs, k \in Keys :
         (DeleteCompletes(p, k) /\ k \notin DOMAIN store[getShard[k]])
            => /\ ret'[p].op = "Delete"
               /\ store' = store
               /\ size' = size
               /\ heap' = heap
               /\ pool' = pool
               /\ hits' = hits
               /\ misses' = misses
               /\ evictions' = evictions]_vars

\* "d4", never set, has been deleted while "ak" is in the shard: "ak" is
\* still there and the pool is empty.
C12_Witness ==
    /\ ret["g1"] = [op |-> "Delete", key |-> KeyD4, existed |-> FALSE]
    /\ ~written[KeyD4].set
    /\ DOMAIN store[getShard[KeyD4]] = {KeyAK}
    /\ size[getShard[KeyD4]] = 1
    /\ \A e \in EntryIds : pool[e] = 0

\* Caller p's Clear empties one shard in this step.
ClearsShard(p, s) ==
    /\ proc[p].pc = "clear_body"
    /\ proc'[p].pc # "clear_body"
    /\ shards[proc[p].i] = s

\* C13: Clear puts every entry it removes from a shard into the pool; when it
\* returns, no other call running, every shard's map is empty with size 0; a
\* Size read while every Set is undone returns 0, and a Get that holds the
\* shared lock on a key set before the Clear and not since fixes not found as
\* its result and returns it.
C13_ClearEmpties ==
    [][\A p \in Procs :
         /\ \A s \in ShardIds :
              ClearsShard(p, s)
                 => \A e \in EntryIds :
                       pool'[e] = IF e \in Range(store[s]) THEN pool[e] + 1 ELSE pool[e]
         /\ (/\ \E s \in ShardIds : ClearsShard(p, s)
             /\ ret'[p].op = "Clear"
             /\ \A q \in Procs \ {p} : proc[q].pc = "idle")
               => \A s \in ShardIds : DOMAIN store'[s] = {} /\ size'[s] = 0
         /\ (/\ proc[p].pc = "size_read"
             /\ ret'[p].op = "Size"
             /\ \A k \in Keys : ~written[k].set)
               => ret'[p].total = 0
         /\ \A k \in Keys :
              /\ (GetDecides(p, k) /\ written[k] = NoWrite)
                    => DecidedValue(p) = Nil /\ ~DecidedFound(p)
              /\ GetCompletes(p, k)
                    => ret'[p].val = proc[p].val /\ ret'[p].found = proc[p].found]_vars

\* "ak" and "d4" have been set and the cache cleared before either expired:
\* both maps are empty and both entries lie in the pool.
C13_Witness ==
    /\ ret["g1"] = [op |-> "Clear"]
    /\ nops = 3
    /\ \A s \in ShardIds : DOMAIN store[s] = {} /\ size[s] = 0
    /\ \A k \in KeysPair :
         \E e \in EntryIds :
            owner[e] = {k} /\ pool[e] = 1 /\ clock <= heap[e].Expiration

\* C14: GetMulti starts from an empty result; each Get it makes finds its key
\* with the value last set exactly if the key is set and its deadline has not
\* passed at the time that Get reads under the shared lock; a Get that found
\* its key adds it with that value, a Get of an absent or expired key leaves
\* the result alone; GetMulti returns the result so built, whose keys are
\* keys of the list.
C14_GetMulti ==
    [][\A p \in Procs :
         /\ (proc[p].pc = "idle" /\ proc'[p].op = "GetMulti")
               => proc'[p].acc = EmptyMap
         /\ (proc[p].op = "GetMulti" /\ GetDecides(p, proc[p].key))
               => LET k == proc[p].key
                      live == written[k].set /\ DecidedTime(p) <= written[k].deadline
                  IN  /\ DecidedFound(p) = live
                      /\ live => DecidedValue(p) = written[k].val
                      /\ proc'[p].acc = proc[p].acc
         /\ (proc[p].op = "GetMulti" /\ proc'[p].i = proc[p].i + 1)
               => /\ proc[p].pc = "get_count"
                  /\ ret'[p].op = "Get"
                  /\ ret'[p].found = proc[p].found
                  /\ proc'[p].acc = IF proc[p].found
                                    THEN MapPut(proc[p].acc, proc[p].key, proc[p].val)
                                    ELSE proc[p].acc
         /\ (proc[p].pc = "getmulti_return" /\ proc'[p].pc = "idle")
               => /\ ret'[p] = [op |-> "GetMulti", keys |-> proc[p].keys,
                                result |-> proc[p].acc]
                  /\ DOMAIN ret'[p].result \subseteq Range(proc[p].keys)
                  /\ Cardinality(DOMAIN ret'[p].result) <= Len(proc[p].keys)]_vars

\* A GetMulti of "a" and "ak" has returned the empty result: "a" was never
\* set, and "ak" is set but its deadline has passed.
C14_Witness ==
    /\ written[KeyAK].set
    /\ clock > written[KeyAK].deadline
    /\ ret["g1"] = [op |-> "GetMulti", keys |-> <<KeyA, KeyAK>>, result |-> EmptyMap]

\* C15: each pass of SetMulti's loop is the Set of one pair of the mapping
\* with the TTL argument of the call: it maps the key to an entry holding the
\* pair's value and the deadline of a Set made at that moment, raises the
\* shard's size by one exactly if the key was not mapped, and leaves every
\* other key alone.  When SetMulti returns, every pair whose deadline has not
\* passed is mapped with its value; with unbounded capacity a Size taken while
\* no set key has expired returns the number of keys set, and a Get that reads
\* such a key under the shared lock returns the pair's value.
C15_SetMulti ==
    [][\A p \in Procs :
         LET entries == proc[p].entries
         IN  /\ (proc[p].op = "SetMulti" /\ proc[p].pc = "set_lock"
                                         /\ proc'[p].pc = "set_body")
                   => LET k == proc'[p].key
                      IN  /\ k \in DOMAIN entries
                          /\ proc'[p].val = entries[k]
                          /\ proc'[p].exp = clock + EffectiveTTL(ttl, proc[p].t)
             /\ (proc[p].op = "SetMulti" /\ proc[p].pc = "set_body"
                                         /\ proc'[p].pc # "set_body")
                   => LET k == proc[p].key
                          s == getShard[k]
                      IN  /\ DOMAIN store'[s] = DOMAIN store[s] \cup {k}
                          /\ heap'[store'[s][k]] =
                                [Value |-> entries[k], Expiration |-> proc[p].exp,
                                 lastAccess |-> clock]
                          /\ size'[s] = IF k \in DOMAIN store[s] THEN size[s]
                                        ELSE size[s] + 1
                          /\ \A j \in DOMAIN store[s] \ {k} :
                                /\ store'[s][j] = store[s][j]
                                /\ heap'[store[s][j]] = heap[store[s][j]]
                          /\ \A x \in ShardIds \ {s} :
                                store'[x] = store[x] /\ size'[x] = size[x]
                          /\ evictions' = evictions
             /\ (proc[p].pc = "setmulti_return" /\ proc'[p].pc = "idle")
                   => /\ ret'[p] = [op |-> "SetMulti", entries |-> entries,
                                    t |-> proc[p].t]
                      /\ \A k \in DOMAIN entries :
                            /\ written[k].set
                            /\ written[k].val = entries[k]
                            /\ clock <= written[k].deadline
                                  => /\ k \in DOMAIN store[getShard[k]]
                                     /\ heap[store[getShard[k]][k]].Value = entries[k]
                                     /\ heap[store[getShard[k]][k]].Expiration
                                           = written[k].deadline
             /\ (/\ proc[p].pc = "size_read"
                 /\ ret'[p].op = "Size"
                 /\ maxCapacity = 0
                 /\ \A k \in Keys : written[k].set => clock <= written[k].deadline)
                   => ret'[p].total = Cardinality({k \in Keys : written[k].set})
             /\ \A k \in Keys :
                  /\ (/\ GetDecides(p, k)
                      /\ written[k].set
                      /\ DecidedTime(p) <= written[k].deadline)
                        => DecidedFound(p) /\ DecidedValue(p) = written[k].val
                  /\ GetCompletes(p, k)
                        => ret'[p].found = proc[p].found /\ ret'[p].val = proc[p].val]_vars

\* On an empty cache SetMulti has set "ak" to "v2" and "d4" to "v1", and the
\* Size taken next, before either expired, has returned 2.
C15_Witness ==
    /\ ret["g1"] = [op |-> "Size", total |-> 2]
    /\ nops = 2
    /\ written[KeyAK].set /\ written[KeyAK].val = "v2" /\ clock <= written[KeyAK].deadline
    /\ written[KeyD4].set /\ written[KeyD4].val = "v1" /\ clock <= written[KeyD4].deadline
    /\ DOMAIN store[getShard[KeyAK]] = {KeyAK, KeyD4}

\* C16: Close closes the done channel when it is called and returns only
\* when the cleanup goroutine has exited; once exited the goroutine holds no
\* shard's mutex and takes no further step, every later change of a map being
\* a caller's; and under the fairness of FairClose a Close that is waiting
\* returns in the end, wherever the cleanup goroutine was when it was called.
C16_Close ==
    /\ [](\A p \in Procs :
            /\ proc[p].pc = "close_wait" => done
            /\ ret[p].op = "Close" => done /\ reaper.pc = "exited")
    /\ [](reaper.pc = "exited"
            => \A s \in ShardIds : mutex[s].w # Reaper /\ Reaper \notin mutex[s].r)
    /\ [][reaper.pc = "exited"
            => /\ reaper' = reaper
               /\ \A s \in ShardIds :
                    store'[s] # store[s] => \E p \in Procs : mutex[s].w = p]_vars
    /\ \A p \in Procs :
         (proc[p].pc = "close_wait") ~> (ret[p].op = "Close" /\ reaper.pc = "exited")

\* Close has returned after being called while the cleanup goroutine held a
\* shard's mutex to delete expired keys; the goroutine has exited.
C16_Witness ==
    /\ ret["g1"] = [op |-> "Close", err |-> Nil, during |-> "sweep"]
    /\ reaper.pc = "exited"
    /\ done

\* The (shard, key) pairs under which entry e is mapped.
MappedAt(st, e) ==
    UNION {{<<s, k>> : k \in {x \in DOMAIN st[s] : st[s][x] = e}} : s \in ShardIds}

\* C17: in every state an entry lies in the pool at most once and then under no
\* key, it is mapped under at most one key of one shard, and an entry that was
\* ever handed out is mapped or lies in the pool; a step that takes an entry
\* out of the maps puts it into the pool once, and nothing else is put there.
C17_EntryOwnership ==
    /\ [](\A e \in EntryIds :
            /\ pool[e] \in {0, 1}
            /\ Cardinality(MappedAt(store, e)) <= 1
            /\ ~(pool[e] = 1 /\ MappedAt(store, e) # {})
            /\ owner[e] # {} => pool[e] = 1 \/ MappedAt(store, e) # {})
    /\ [][\A e \in EntryIds :
            /\ (e \in Mapped(store) /\ e \notin Mapped(store')) => pool'[e] = pool[e] + 1
            /\ pool'[e] > pool[e] => e \in Mapped(store) /\ e \notin Mapped(store')]_vars

\* Two Gets found "ak" expired under the shared lock; the Get of g2 has removed
\* it and put its entry into the pool, and the Get of g3 now holds the
\* exclusive lock for its own deletion.
C17_Witness ==
    /\ ret["g2"] = [op |-> "Get", key |-> KeyAK, val |-> Nil, found |-> FALSE,
                    removed |-> TRUE]
    /\ proc["g3"].pc = "get_recheck"
    /\ proc["g3"].key = KeyAK
    /\ KeyAK \notin DOMAIN store[getShard[KeyAK]]
    /\ \E e \in EntryIds : owner[e] = {KeyAK} /\ pool[e] = 1

\* C18: a shard's size is never negative, and whenever nobody holds the
\* shard's mutex exclusively it is the number of keys of the shard's map.
C18_SizeIsCardinality ==
    \A s \in ShardIds :
        /\ size[s] >= 0
        /\ mutex[s].w = NoHolder => size[s] = Cardinality(DOMAIN store[s])

\* With a capacity of one, the Set of "d4" has evicted "ak" and a second Set
\* has updated "d4": the shard holds one key and its size is 1.
C18_Witness ==
    /\ ret["g1"].op = "Set"
    /\ ret["g1"].key = KeyD4
    /\ ret["g1"].existed
    /\ evictions = 1
    /\ mutex[getShard[KeyD4]].w = NoHolder
    /\ DOMAIN store[getShard[KeyD4]] = {KeyD4}
    /\ size[getShard[KeyD4]] = 1

\* C19: a Get that finds its key copies the Value while it holds the shard's
\* shared lock, no writer holding the mutex, out of the entry mapped under its
\* key, an entry issued for that key and not in the pool, writing nothing but
\* that entry's lastAccess; once the lock is released it returns the copy and
\* touches no entry.  The deletion after the upgrade writes no entry and puts
\* into the pool only the entry mapped under the key at that moment, never the
\* entry seen under the shared lock if that is another one.  No step writes a
\* field of an entry that the step leaves in the pool or under a key other
\* than the one it was issued for.
C19_NoUseAfterFree ==
    [][/\ \A p \in Procs :
            LET k == proc[p].key
                s == getShard[k]
            IN  /\ (proc[p].pc = "get_touch" /\ proc'[p].pc # "get_touch")
                      => /\ p \in mutex[s].r
                         /\ mutex[s].w = NoHolder
                         /\ k \in DOMAIN store[s]
                         /\ proc[p].entry = store[s][k]
                         /\ pool[store[s][k]] = 0
                         /\ owner[store[s][k]] = {k}
                         /\ proc'[p].found
                         /\ proc'[p].val = heap[store[s][k]].Value
                         /\ heap' = [heap EXCEPT ![store[s][k]].lastAccess = proc[p].now]
                /\ (proc[p].pc = "get_count" /\ proc'[p].pc # "get_count")
                      => /\ p \notin mutex[s].r
                         /\ ret'[p].found = proc[p].found
                         /\ ret'[p].val = proc[p].val
                         /\ heap' = heap
                         /\ pool' = pool
                /\ (proc[p].pc = "get_recheck" /\ proc'[p].pc # "get_recheck")
                      => /\ mutex[s].w = p
                         /\ heap' = heap
                         /\ \A e \in EntryIds :
                              pool'[e] # pool[e]
                                 => /\ k \in DOMAIN store[s]
                                    /\ e = store[s][k]
                                    /\ pool[e] = 0
                                    /\ pool'[e] = 1
       /\ \A e \in EntryIds :
            heap'[e] # heap[e]
               => /\ pool'[e] = 0
                  /\ \E sk \in MappedAt(store', e) : owner'[e] = {sk[2]}]_vars

\* A Get of "ak" saw an expired entry under the shared lock and now holds the
\* exclusive lock; in between the entry was removed, put into the pool and
\* issued again to the Set of "d4", which is mapped to it.
C19_Witness ==
    /\ proc["g3"].pc = "get_recheck"
    /\ proc["g3"].key = KeyAK
    /\ proc["g3"].entry # 0
    /\ KeyD4 \in DOMAIN store[getShard[KeyD4]]
    /\ store[getShard[KeyD4]][KeyD4] = proc["g3"].entry
    /\ owner[proc["g3"].entry] = {KeyD4}
    /\ pool[proc["g3"].entry] = 0

\* C20: the step of Get under the exclusive lock removes the key, lowers the
\* shard's size by one and puts the entry into the pool exactly if the key is
\* mapped at that moment and the Expiration of the entry now mapped is
\* positive and before the current time; otherwise maps, sizes, pool and
\* entries stay as they are, so an entry refreshed by a Set since the shared
\* lock was released keeps its value and deadline.  Either way the Get
\* releases the lock with not found as its result and returns it.
C20_RecheckAfterUpgrade ==
    [][/\ \A p \in Procs :
            (proc[p].pc = "get_recheck" /\ proc'[p].pc # "get_recheck")
            => LET k == proc[p].key
                   s == getShard[k]
                   passed == /\ k \in DOMAIN store[s]
                             /\ heap[store[s][k]].Expiration > 0
                             /\ clock > heap[store[s][k]].Expiration
               IN  /\ proc'[p] = [proc[p] EXCEPT !.pc = "get_count", !.found = FALSE,
                                                  !.val = Nil, !.upgraded = TRUE,
                                                  !.removed = passed]
                   /\ mutex[s].w = p
                   /\ mutex'[s].w = NoHolder
                   /\ heap' = heap
                   /\ \A x \in ShardIds \ {s} : store'[x] = store[x] /\ size'[x] = size[x]
                   /\ passed => /\ store'[s] = [j \in DOMAIN store[s] \ {k} |-> store[s][j]]
                                /\ size'[s] = size[s] - 1
                                /\ pool' = [pool EXCEPT ![store[s][k]] = @ + 1]
                   /\ ~passed => /\ store'[s] = store[s]
                                 /\ size'[s] = size[s]
                                 /\ pool' = pool
       /\ \A p \in Procs :
            (proc[p].pc = "get_count" /\ proc[p].upgraded /\ proc'[p] # proc[p])
               => /\ ret'[p] = [op |-> "Get", key |-> proc[p].key, val |-> Nil,
                                found |-> FALSE, removed |-> proc[p].removed]
                  /\ store' = store /\ size' = size /\ pool' = pool /\ heap' = heap]_vars

\* A Get of "ak" saw an expired entry under the shared lock and now holds the
\* exclusive lock, but a Set has refreshed the entry in between: "ak" is
\* mapped to the entry the Get saw, with a deadline that has not passed.
C20_Witness ==
    /\ proc["g3"].pc = "get_recheck"
    /\ proc["g3"].key = KeyAK
    /\ KeyAK \in DOMAIN store[getShard[KeyAK]]
    /\ store[getShard[KeyAK]][KeyAK] = proc["g3"].entry
    /\ written[KeyAK].set
    /\ heap[proc["g3"].entry].Value = written[KeyAK].val
    /\ heap[proc["g3"].entry].Expiration = written[KeyAK].deadline
    /\ clock <= written[KeyAK].deadline

\* C21: the steps a Get takes under the shared lock fix its result by the map
\* at that moment: a key not mapped gives (nil, false); a key mapped to an
\* entry that is not expired at the time the Get reads gives that entry's
\* Value with true, copied before the lock is released; a key mapped to an
\* expired entry sends the Get on to the exclusive lock, and the step under
\* that lock gives (nil, false) whether it finds the key still expired, gone
\* or refreshed.  None of these steps counts or returns.  The last step of
\* the Get, no lock held, returns the result so fixed and counts exactly one
\* hit if it is found and exactly one miss if it is not.
C21_GetConsistent ==
    [][\A p \in Procs :
         LET k == proc[p].key
             s == getShard[k]
             present == k \in DOMAIN store[s]
             expired == present /\ heap[store[s][k]].Expiration > 0
                                /\ clock > heap[store[s][k]].Expiration
         IN  /\ (proc[p].pc = "get_read" /\ proc'[p] # proc[p])
                   => /\ p \in mutex[s].r
                      /\ ~present
                            => proc'[p] = [proc[p] EXCEPT !.pc = "get_count"]
                      /\ (present /\ ~expired)
                            => /\ proc'[p] = [proc[p] EXCEPT !.pc = "get_touch",
                                                             !.entry = store[s][k],
                                                             !.now = clock]
                               /\ p \in mutex'[s].r
                      /\ expired => proc'[p].pc = "get_wlock"
                      /\ ret'[p] = ret[p]
                      /\ hits' = hits /\ misses' = misses /\ gets' = gets
             /\ (proc[p].pc = "get_touch" /\ proc'[p] # proc[p])
                   => /\ p \in mutex[s].r
                      /\ present
                      /\ store[s][k] = proc[p].entry
                      /\ ~(heap[store[s][k]].Expiration > 0
                             /\ proc[p].now > heap[store[s][k]].Expiration)
                      /\ proc'[p] = [proc[p] EXCEPT !.pc = "get_count", !.found = TRUE,
                                                    !.val = heap[store[s][k]].Value]
                      /\ ret'[p] = ret[p]
                      /\ hits' = hits /\ misses' = misses /\ gets' = gets
             /\ (proc[p].pc = "get_recheck" /\ proc'[p] # proc[p])
                   => /\ proc'[p].pc = "get_count"
                      /\ proc'[p].val = Nil
                      /\ ~proc'[p].found
                      /\ ret'[p] = ret[p]
                      /\ hits' = hits /\ misses' = misses /\ gets' = gets
             /\ (proc[p].pc = "get_count" /\ proc'[p] # proc[p])
                   => /\ \A x \in ShardIds : p \notin mutex[x].r /\ mutex[x].w # p
                      /\ ret'[p] = [op |-> "Get", key |-> k, val |-> proc[p].val,
                                    found |-> proc[p].found, removed |-> proc[p].removed]
                      /\ proc[p].found => hits' = hits + 1 /\ misses' = misses
                      /\ ~proc[p].found => misses' = misses + 1 /\ hits' = hits
                                             /\ proc[p].val = Nil]_vars

\* Two Gets of the expired "ak" have both returned not found, one of them
\* having removed the entry after its upgrade, and two misses are counted.
C21_Witness ==
    /\ ret["g3"] = [op |-> "Get", key |-> KeyAK, val |-> Nil, found |-> FALSE,
                    removed |-> TRUE]
    /\ ret["g2"] = [op |-> "Get", key |-> KeyAK, val |-> Nil, found |-> FALSE,
                    removed |-> FALSE]
    /\ written[KeyAK].set
    /\ misses = 2
    /\ hits = 0

\* C22: phase 2 of a sweep removes from the shard exactly the candidates that
\* are still mapped to an entry whose Expiration is positive and before the
\* timestamp of the sweep, puts their entries into the pool and lowers the
\* size by their number; every other key keeps its entry and no entry is
\* written.  No key it removes is one whose last Set is not undone and has a
\* deadline at or after the timestamp, so none a Get at that time would find.
C22_ReaperDoubleCheck ==
    [][(reaper.pc = "sweep" /\ reaper' # reaper)
          => LET s == shards[reaper.i]
                 removed == DOMAIN store[s] \ DOMAIN store'[s]
             IN  /\ mutex[s].w = Reaper
                 /\ removed = {k \in reaper.expiredKeys :
                                 /\ k \in DOMAIN store[s]
                                 /\ heap[store[s][k]].Expiration > 0
                                 /\ heap[store[s][k]].Expiration < reaper.now}
                 /\ store'[s] = [k \in DOMAIN store[s] \ removed |-> store[s][k]]
                 /\ size'[s] = size[s] - Cardinality(removed)
                 /\ pool' = [e \in EntryIds |->
                               IF \E k \in removed : store[s][k] = e
                               THEN pool[e] + 1 ELSE pool[e]]
                 /\ heap' = heap
                 /\ \A x \in ShardIds \ {s} : store'[x] = store[x] /\ size'[x] = size[x]
                 /\ \A k \in removed :
                      ~(written[k].set /\ reaper.now <= written[k].deadline)]_vars

\* The cleanup goroutine holds the exclusive lock for phase 2 with "ak" as
\* its candidate, but a Set has refreshed "ak" since phase 1: the deadline of
\* the mapped entry lies after the timestamp of the sweep.
C22_Witness ==
    /\ reaper.pc = "sweep"
    /\ reaper.expiredKeys = {KeyAK}
    /\ KeyAK \in DOMAIN store[getShard[KeyAK]]
    /\ written[KeyAK].set
    /\ heap[store[getShard[KeyAK]][KeyAK]].Expiration = written[KeyAK].deadline
    /\ written[KeyAK].deadline > reaper.now

\* Key k is mapped to an entry whose Expiration has passed.
MappedExpired(k) ==
    /\ k \in DOMAIN store[getShard[k]]
    /\ Expired(heap[store[getShard[k]][k]].Expiration, clock)

\* C23: with no Get, Delete or Clear at work, a key mapped to an expired entry
\* is in the end removed from its map, unless a Set refreshes it or the cache
\* is closed first; a key leaves a map only in phase 2 of a sweep, which
\* lowers the size and puts the entry into the pool; and a sweep begins at the
\* first shard, goes from each shard to the next and returns to the select
\* only from the last.
C23_ReaperRemovesExpired ==
    /\ \A k \in KeysTwoShards :
         MappedExpired(k) ~> (\/ k \notin DOMAIN store[getShard[k]]
                              \/ ~MappedExpired(k)
                              \/ done)
    /\ [][\A k \in Keys :
            LET s == getShard[k]
            IN  (k \in DOMAIN store[s] /\ k \notin DOMAIN store'[s])
                   => /\ reaper.pc = "sweep"
                      /\ shards[reaper.i] = s
                      /\ mutex[s].w = Reaper
                      /\ size'[s] < size[s]
                      /\ pool'[store[s][k]] = pool[store[s][k]] + 1
                      /\ gets = 0]_vars
    /\ [][/\ (reaper.pc = "select" /\ reaper'.pc \notin {"select", "exited"})
               => reaper'.i = 1 /\ reaper'.now = clock
          /\ (reaper.pc # "select" /\ reaper'.pc = "select")
               => reaper.i = Len(shards)
          /\ (reaper.pc # "select" /\ reaper'.i # reaper.i)
               => reaper'.pc = "select" \/ reaper'.i = reaper.i + 1]_vars

\* "ak" and "a" were set and never got or deleted; past their deadlines the
\* cleanup goroutine has removed both, and their entries lie in the pool.
C23_Witness ==
    /\ ~done
    /\ gets = 0
    /\ \A k \in KeysTwoShards :
         /\ written[k].set
         /\ clock > written[k].deadline
         /\ k \notin DOMAIN store[getShard[k]]
         /\ size[getShard[k]] = 0
         /\ \E e \in EntryIds : owner[e] = {k} /\ pool[e] = 1

\* The first of the entries examined, at most sampleSize in the iteration
\* order `order` of the map m, that has the smallest lastAccess among them.
FirstOldestExamined(order, m, hp) ==
    LET n == Min(sampleSize, Len(order))
        first == CHOOSE i \in 1..n :
                    /\ \A j \in 1..n : hp[m[order[i]]].lastAccess <= hp[m[order[j]]].lastAccess
                    /\ \A j \in 1..(i - 1) :
                          hp[m[order[j]]].lastAccess > hp[m[order[i]]].lastAccess
    IN  order[first]

\* C24: a Set that calls evictOldest on a shard removes, for some iteration
\* order of the shard's map, the first of the at most sampleSize entries
\* examined that has the smallest lastAccess among them, and no other entry;
\* the evictions counter rises by one, and the size, lowered by one for the
\* entry removed and raised by one for the key inserted, stays as it was.
C24_EvictsOldestExamined ==
    [][\A p \in Procs, s \in ShardIds :
         /\ (/\ SetChecks(p, s)
             /\ NeedEvict(maxCapacity, size[s], proc[p].key \in DOMAIN store[s])
             /\ DOMAIN store[s] # {})
               => /\ \E order \in Perms(DOMAIN store[s]) :
                       Removed(s) = {FirstOldestExamined(order, store[s], heap)}
                  /\ proc'[p].pc = "set_evicted"
                  /\ size'[s] = size[s] - 1
         /\ SetCounts(p, s) => evictions' = evictions + 1 /\ size'[s] = size[s]
         /\ SetStores(p, s) => evictions' = evictions /\ size'[s] = size[s] + 1]_vars

\* The shards of which goroutine g holds the mutex, shared or exclusive.
HeldShards(g) == {s \in ShardIds : mutex[s].w = g \/ g \in mutex[s].r}

\* The shard whose mutex caller p is waiting for, if any.
WaitsFor(p) ==
    IF proc[p].pc \in {"get_rlock", "get_wlock", "delete_lock"}
    THEN {getShard[proc[p].key]}
    ELSE IF proc[p].pc = "set_lock"
    THEN {getShard[IF proc[p].op = "SetMulti" THEN Head(proc[p].rest) ELSE proc[p].key]}
    ELSE IF proc[p].pc \in {"clear_lock", "size"} THEN {shards[proc[p].i]}
    ELSE {}

\* A step of caller p's pending call.
StepOf(p) ==
    \/ SetSteps(p) \/ SetEvictSteps(p) \/ DeleteSteps(p) \/ ClearSteps(p)
    \/ StatsSteps(p) \/ GetSteps(p)

\* C25: no caller and no sweep holds the mutexes of two shards at once, or
\* one mutex both shared and exclusively; a Set, Delete, Get, Clear or Size
\* waiting for a lock, its first included, a Get waiting for the exclusive
\* lock or about to count, a Stats loading the counters and an idle caller
\* hold none, and a call inside a locked section holds the mutex of that
\* section's shard.  A pending call can take its next step unless the very
\* mutex it waits for is held by another goroutine, exclusively if it waits
\* for the shared lock, whatever is held on other shards, and a holder can
\* always step, so nothing deadlocks; under fair lock scheduling every call
\* returns, so that again and again no call is pending, and every sweep
\* reaches the select again.
C25_NoDeadlock ==
    /\ [](\A g \in Procs \cup {Reaper} :
            /\ Cardinality(HeldShards(g)) <= 1
            /\ \A s \in ShardIds : ~(mutex[s].w = g /\ g \in mutex[s].r))
    /\ [](\A p \in Procs :
            /\ proc[p].pc \in {"idle", "set_lock", "delete_lock", "get_rlock", "get_wlock",
                               "get_count", "clear_lock", "size", "stats_misses",
                               "stats_evictions"}
                  => HeldShards(p) = {}
            /\ proc[p].pc \in {"set_body", "set_evicted", "set_store", "delete_body",
                               "get_recheck"}
                  => mutex[getShard[proc[p].key]].w = p
            /\ proc[p].pc \in {"get_read", "get_touch"}
                  => p \in mutex[getShard[proc[p].key]].r
            /\ proc[p].pc = "clear_body" => mutex[shards[proc[p].i]].w = p
            /\ proc[p].pc = "size_read" => p \in mutex[shards[proc[p].i]].r
            /\ proc[p].pc # "idle"
                  => \/ ENABLED StepOf(p)
                     \/ \E s \in WaitsFor(p) :
                           IF proc[p].pc \in {"get_rlock", "size"}
                           THEN mutex[s].w \notin {NoHolder, p}
                           ELSE \E g \in (Procs \cup {Reaper}) \ {p} : s \in HeldShards(g))
    /\ [](reaper.pc \in {"select", "rlock", "lock"} => HeldShards(Reaper) = {})
    /\ [](reaper.pc \in {"scan", "sweep"} => ENABLED Cleanup)
    /\ []<>((\A p \in Procs : proc[p].pc = "idle") /\ reaper.pc = "select")

\* The cleanup goroutine holds the mutex of shard 197 to delete expired keys
\* while a Clear holds the mutex of shard 44 and a Get waits for the
\* exclusive lock of shard 197 after releasing its shared lock.
C25_Witness ==
    /\ reaper.pc = "sweep"
    /\ mutex[getShard[KeyAK]].w = Reaper
    /\ proc["g2"].pc = "clear_body"
    /\ mutex[getShard[KeyA]].w = "g2"
    /\ proc["g1"].pc = "get_wlock"
    /\ HeldShards("g1") = {}

\* Goroutine g takes a step.
Steps(g) == IF g = Reaper THEN reaper' # reaper ELSE g \in Procs /\ proc'[g] # proc[g]

\* C26: a step that changes a shard's map or size is a step of the goroutine
\* holding that shard's mutex exclusively, and so is a step that writes the
\* Value of an entry, for the shard the entry is mapped in afterwards; while
\* a mutex is held exclusively nobody holds it shared.
C26_WritesUnderExclusiveLock ==
    /\ [](\A s \in ShardIds : mutex[s].w # NoHolder => mutex[s].r = {})
    /\ [][/\ \A s \in ShardIds :
               (store'[s] # store[s] \/ size'[s] # size[s])
                  => mutex[s].w # NoHolder /\ Steps(mutex[s].w)
          /\ \A e \in EntryIds :
               heap'[e].Value # heap[e].Value
                  => \E sk \in MappedAt(store', e) :
                        mutex[sk[1]].w # NoHolder /\ Steps(mutex[sk[1]].w)]_vars

\* Two Gets hold the shared lock of the shard of "ak" at the same time, the
\* key being mapped.
C26_Witness ==
    /\ mutex[getShard[KeyAK]].r = {"g2", "g3"}
    /\ mutex[getShard[KeyAK]].w = NoHolder
    /\ proc["g2"].pc = "get_read"
    /\ proc["g3"].pc = "get_read"
    /\ KeyAK \in DOMAIN store[getShard[KeyAK]]

\* C27: a Set on a key that is in its shard's map leaves every map, size and
\* the pool as they are and writes one entry, the one mapped under the key,
\* which gets the value, the deadline and the time of the Set as Value,
\* Expiration and lastAccess; nothing is evicted.
C27_UpdateInPlace ==
    [][\A p \in Procs, s \in ShardIds :
         (SetChecks(p, s) /\ proc[p].key \in DOMAIN store[s])
            => /\ proc'[p].pc # "set_evicted"
               /\ store' = store
               /\ size' = size
               /\ pool' = pool
               /\ evictions' = evictions
               /\ heap' = [heap EXCEPT ![store[s][proc[p].key]] =
                             [Value |-> proc[p].val, Expiration |-> proc[p].exp,
                              lastAccess |-> clock]]]_vars

\* "ak" has been set twice, the second Set finding it mapped, while the entry
\* that held "d4" until the cleanup goroutine removed it lies in the pool.
C27_Witness ==
    /\ ret["g1"].op = "Set"
    /\ ret["g1"].key = KeyAK
    /\ ret["g1"].existed
    /\ DOMAIN store[getShard[KeyAK]] = {KeyAK}
    /\ size[getShard[KeyAK]] = 1
    /\ \E e \in EntryIds : owner[e] = {KeyD4} /\ pool[e] = 1

\* C28: a Set or Delete of a key takes effect in one step of the holder of
\* the shard's exclusive lock, which leaves the key mapped with the value and
\* deadline of that Set, or not mapped after that Delete, whatever earlier
\* calls left.  So whenever no call is running the key is mapped exactly with
\* the value and deadline of the last such step, unless that was a Delete or
\* the deadline has passed, and a Get that reads then fixes that value as its
\* result and returns it.
C28_LockOrder ==
    /\ [][\A p \in Procs, k \in Keys :
            LET s == getShard[k]
            IN  /\ (SetCompletes(p, s) /\ proc[p].key = k)
                      => /\ mutex[s].w = p
                         /\ k \in DOMAIN store'[s]
                         /\ heap'[store'[s][k]].Value = proc[p].val
                         /\ heap'[store'[s][k]].Expiration = proc[p].exp
                         /\ written'[k].set
                         /\ written'[k].val = proc[p].val
                         /\ written'[k].deadline = proc[p].exp
                /\ DeleteCompletes(p, k)
                      => /\ mutex[s].w = p
                         /\ k \notin DOMAIN store'[s]
                         /\ ~written'[k].set
                /\ (/\ GetDecides(p, k)
                    /\ \A q \in Procs \ {p} : proc[q].pc = "idle")
                      => IF written[k].set /\ DecidedTime(p) <= written[k].deadline
                         THEN DecidedFound(p) /\ DecidedValue(p) = written[k].val
                         ELSE ~DecidedFound(p)
                /\ GetCompletes(p, k)
                      => ret'[p].found = proc[p].found /\ ret'[p].val = proc[p].val]_vars
    /\ [](\A k \in Keys :
            LET s == getShard[k]
            IN  (\A q \in Procs : proc[q].pc = "idle")
                   => /\ k \in DOMAIN store[s]
                            => /\ written[k].set
                               /\ heap[store[s][k]].Value = written[k].val
                               /\ heap[store[s][k]].Expiration = written[k].deadline
                      /\ (written[k].set /\ clock <= written[k].deadline)
                            => k \in DOMAIN store[s])

\* g1 has set "ak" to "v1", g2 has then set it to "v2", finding it mapped,
\* and with no call running the Get of g3 has returned "v2".
C28_Witness ==
    /\ \A q \in Procs : proc[q].pc = "idle"
    /\ ret["g1"].op = "Set" /\ ret["g1"].val = "v1"
    /\ ret["g2"].op = "Set" /\ ret["g2"].val = "v2" /\ ret["g2"].existed
    /\ ret["g3"] = [op |-> "Get", key |-> KeyAK, val |-> "v2", found |-> TRUE,
                    removed |-> FALSE]
    /\ KeyAK \in DOMAIN store[getShard[KeyAK]]
    /\ heap[store[getShard[KeyAK]][KeyAK]].Value = "v2"

\* C29: Clear holds one shard's mutex at a time, exclusively, and none between
\* two shards; the step that empties a shard leaves every other shard's map
\* and size as they are, so a key set on a shard Clear has already emptied
\* stays mapped when Clear goes on and returns; and a Get that releases the
\* shared lock, while a Clear is running, for a key whose shard that Clear
\* has not emptied yet and whose last Set is not undone nor past its deadline
\* has that Set's value as its result and returns it.
C29_ClearShardByShard ==
    /\ [](\A p \in Procs :
            /\ proc[p].pc = "clear_lock" => HeldShards(p) = {}
            /\ proc[p].pc = "clear_body"
                  => HeldShards(p) = {shards[proc[p].i]} /\ mutex[shards[proc[p].i]].w = p)
    /\ [][\A p \in Procs :
            /\ \A s \in ShardIds :
                 ClearsShard(p, s)
                    => /\ DOMAIN store'[s] = {}
                       /\ size'[s] = 0
                       /\ \A x \in ShardIds \ {s} :
                            store'[x] = store[x] /\ size'[x] = size[x]
                       /\ \A k \in Keys :
                            (getShard[k] # s /\ k \in DOMAIN store[getShard[k]])
                               => written'[k] = written[k] /\ k \in DOMAIN store'[getShard[k]]
            /\ \A k \in Keys :
                 /\ (/\ GetDecides(p, k)
                     /\ \E q \in Procs : proc[q].op = "Clear"
                     /\ written[k].set
                     /\ DecidedTime(p) <= written[k].deadline)
                       => DecidedFound(p) /\ DecidedValue(p) = written[k].val
                 /\ GetCompletes(p, k)
                       => ret'[p] = [op |-> "Get", key |-> k, val |-> proc[p].val,
                                     found |-> proc[p].found, removed |-> proc[p].removed]]_vars

\* A Clear has emptied the first shard, where "a" was mapped to "v1", and
\* waits for the mutex of the second; since then a Set has mapped "a" to "v2"
\* in the first shard, and a Get of "ak" holds the second shard's mutex shared
\* with "ak" still mapped to "v1" and not expired.
C29_Witness ==
    /\ proc["g2"].op = "Clear"
    /\ proc["g2"].pc = "clear_lock"
    /\ shards[proc["g2"].i] = getShard[KeyAK]
    /\ ret["g1"] = [op |-> "Set", key |-> KeyA, val |-> "v2", existed |-> FALSE,
                    full |-> FALSE, victim |-> {}]
    /\ KeyA \in DOMAIN store[getShard[KeyA]]
    /\ heap[store[getShard[KeyA]][KeyA]].Value = "v2"
    /\ proc["g3"].pc = "get_read"
    /\ proc["g3"].key = KeyAK
    /\ "g3" \in mutex[getShard[KeyAK]].r
    /\ KeyAK \in DOMAIN store[getShard[KeyAK]]
    /\ heap[store[getShard[KeyAK]][KeyAK]].Value = "v1"
    /\ ~Expired(heap[store[getShard[KeyAK]][KeyAK]].Expiration, clock)

\* C30: SetMulti holds no mutex between two passes of its loop; a pass sets
\* its own key to its own value of the batch and leaves every other key, set
\* or not, as it is, the batch's remaining keys included; and a Get, alone or
\* within GetMulti, that releases the shared lock while a SetMulti is running
\* reports its key by that key's own state: found with the value last set if
\* the key is set and not past its deadline, not found otherwise, whatever
\* the state of the batch's other keys; it returns what it so fixed.
C30_SetMultiKeyByKey ==
    /\ [](\A p \in Procs :
            (proc[p].op = "SetMulti" /\ proc[p].pc \in {"set_lock", "setmulti_return"})
               => HeldShards(p) = {})
    /\ [][\A p \in Procs :
            /\ (proc[p].op = "SetMulti" /\ proc[p].pc = "set_body" /\ proc'[p].pc # "set_body")
                  => LET k == proc[p].key
                     IN  /\ k = Head(proc[p].rest)
                         /\ written'[k].set
                         /\ written'[k].val = proc[p].entries[k]
                         /\ \A x \in Keys \ {k} :
                              /\ written'[x] = written[x]
                              /\ (x \in DOMAIN store'[getShard[x]])
                                    = (x \in DOMAIN store[getShard[x]])
            /\ \A k \in Keys :
                 /\ (/\ GetDecides(p, k)
                     /\ \E q \in Procs : proc[q].op = "SetMulti")
                       => LET live == /\ written[k].set
                                      /\ DecidedTime(p) <= written[k].deadline
                          IN  /\ DecidedFound(p) = live
                              /\ live => DecidedValue(p) = written[k].val
                 /\ GetCompletes(p, k)
                       => /\ ret'[p].op = "Get"
                          /\ ret'[p].found = proc[p].found
                          /\ ret'[p].val = proc[p].val]_vars

\* A SetMulti of "ak" and "a" has set "ak" and waits for the mutex of the
\* shard of "a", which is not mapped; meanwhile a Get of "ak" has returned
\* "v1" and a GetMulti of "a" and "ak" has returned "ak" alone.
C30_Witness ==
    /\ proc["g1"].op = "SetMulti"
    /\ proc["g1"].pc = "set_lock"
    /\ proc["g1"].entries = MapPut(MapPut(EmptyMap, KeyAK, "v1"), KeyA, "v2")
    /\ proc["g1"].rest = <<KeyA>>
    /\ KeyA \notin DOMAIN store[getShard[KeyA]]
    /\ ~written[KeyA].set
    /\ ret["g2"] = [op |-> "Get", key |-> KeyAK, val |-> "v1", found |-> TRUE,
                    removed |-> FALSE]
    /\ ret["g3"] = [op |-> "GetMulti", keys |-> <<KeyA, KeyAK>>,
                    result |-> MapPut(EmptyMap, KeyAK, "v1")]

\* C31: no step lowers hits, misses or evictions; the steps of Clear and of
\* Close and the steps of the cleanup goroutine leave all three as they are;
\* evictions changes only in the step of a Set that follows its eviction, and
\* then by the number of keys that evictOldest took out of the shard, one; a Delete, the lazy
\* deletion of a Get, a sweep and Clear remove keys without raising it.
C31_CountersMonotonic ==
    [][/\ hits' >= hits
       /\ misses' >= misses
       /\ evictions' >= evictions
       /\ \A p \in Procs :
            /\ (proc[p].op \in {"Clear", "Close"} /\ proc'[p] # proc[p])
                  => hits' = hits /\ misses' = misses /\ evictions' = evictions
            /\ (proc[p].pc = "idle" /\ proc'[p].op \in {"Clear", "Close"})
                  => hits' = hits /\ misses' = misses /\ evictions' = evictions
            /\ \A s \in ShardIds :
                 /\ SetChecks(p, s)
                       => /\ Cardinality(Removed(s)) <= 1
                          /\ (proc'[p].pc = "set_evicted") = (Removed(s) # {})
                          /\ proc'[p].pc = "set_evicted" => proc'[p].victim = Removed(s)
                          /\ proc'[p].pc # "set_evicted" => ret'[p].victim = {}
                 /\ SetCounts(p, s)
                       => /\ proc'[p].pc = "set_store"
                          /\ Removed(s) = {}
                          /\ evictions' = evictions + Cardinality(proc[p].victim)
                 /\ SetStores(p, s)
                       => /\ Removed(s) = {}
                          /\ ret'[p].victim = proc[p].victim
       /\ reaper' # reaper => hits' = hits /\ misses' = misses /\ evictions' = evictions
       /\ (\A p \in Procs : ~(proc[p].pc = "set_evicted" /\ proc'[p].pc # "set_evicted"))
            => evictions' = evictions]_vars

\* With a capacity of one, the Set of a second key of the shard has evicted
\* the first and a Clear has then removed the second: both maps are empty and
\* one eviction is counted.
C31_Witness ==
    /\ ret["g1"] = [op |-> "Clear"]
    /\ nops = 3
    /\ evictions = 1
    /\ hits = 0
    /\ misses = 0
    /\ \A s \in ShardIds : DOMAIN store[s] = {}
    /\ Cardinality({e \in EntryIds : pool[e] = 1}) = 2

\* C32: every pass of Size, called alone or by Stats, adds the number of keys
\* in the shard's map, entries past their deadline included, and with one
\* caller the total returned is the number of keys in all maps; a key mapped
\* to an expired entry stays in its map in every step but the lazy deletion of
\* a Get of that key, a Delete of that key, an eviction by Set, a step of
\* Clear on its shard and phase 2 of a sweep; and a Get that reads such a
\* key at a time past the deadline has not found as its result and returns
\* it.
C32_SizeCountsPresent ==
    [][/\ \A p \in Procs :
            /\ (proc[p].pc = "size_read" /\ proc'[p] # proc[p])
                  => LET here == Cardinality(DOMAIN store[shards[proc[p].i]])
                         all == Cardinality({k \in Keys : k \in DOMAIN store[getShard[k]]})
                     IN  /\ proc'[p].pc = "size"
                               => proc'[p].stats.Size = proc[p].stats.Size + here
                         /\ (proc'[p].pc = "idle" /\ proc[p].op = "Size")
                               => ret'[p].total = proc[p].stats.Size + here
                                  /\ ret'[p].total = all
                         /\ (proc'[p].pc = "idle" /\ proc[p].op = "Stats")
                               => ret'[p].stats.Size = proc[p].stats.Size + here
                                  /\ ret'[p].stats.Size = all
            /\ \A k \in Keys :
                 /\ (/\ GetDecides(p, k)
                     /\ k \in DOMAIN store[getShard[k]]
                     /\ Expired(heap[store[getShard[k]][k]].Expiration, DecidedTime(p)))
                       => ~DecidedFound(p)
                 /\ GetCompletes(p, k) => ret'[p].found = proc[p].found
       /\ \A k \in Keys :
            (MappedExpired(k) /\ k \notin DOMAIN store'[getShard[k]])
               => \/ \E p \in Procs :
                       /\ proc'[p] # proc[p]
                       /\ \/ proc[p].pc \in {"get_recheck", "delete_body"} /\ proc[p].key = k
                          \/ proc[p].pc = "set_body" /\ k \in proc'[p].victim
                          \/ ClearsShard(p, getShard[k])
                  \/ reaper.pc = "sweep" /\ reaper' # reaper]_vars

\* "ak" was set at time 1 with a TTL of one tick and "d4" at time 3, when "ak"
\* had expired; the Size called after that has returned 2, and "ak" is still
\* mapped to its expired entry.
C32_Witness ==
    /\ ret["g1"] = [op |-> "Size", total |-> 2]
    /\ MappedExpired(KeyAK)
    /\ KeyD4 \in DOMAIN store[getShard[KeyD4]]
    /\ LastAccess(getShard[KeyD4], KeyD4) > written[KeyAK].deadline

\* A step of a Get of caller p, called alone or by GetMulti.
GetStep(p) ==
    /\ proc[p].pc \in {"get_rlock", "get_read", "get_touch", "get_wlock", "get_recheck",
                       "get_count"}
    /\ proc'[p] # proc[p]

\* C33: no step of a Get changes the Value or the Expiration of an entry, nor
\* the pool, evictions or what the last Set of a key wrote; maps and sizes
\* change only in the lazy deletion, which takes the Get's own key, mapped to
\* an expired entry, out of its shard and lowers that size by one; a Get that
\* finds its key writes the lastAccess of the entry it read, the time it read
\* under the shared lock, and nothing else of the heap, and raises hits by
\* one when it returns; a Get of a key that is not in its map leaves maps,
\* sizes, heap and hits alone and raises misses by one when it returns.  The
\* heap is written in no other step of a Get, and a counter only in the last.
C33_GetFrame ==
    [][\A p \in Procs :
         GetStep(p)
            => LET k == proc[p].key
                   s == getShard[k]
               IN  /\ \A e \in EntryIds :
                        /\ heap'[e].Value = heap[e].Value
                        /\ heap'[e].Expiration = heap[e].Expiration
                   /\ evictions' = evictions
                   /\ written' = written
                   /\ (store' # store \/ size' # size \/ pool' # pool)
                         => /\ proc[p].pc = "get_recheck"
                            /\ MappedExpired(k)
                            /\ store' = [store EXCEPT ![s] = MapDel(store[s], k)]
                            /\ size' = [size EXCEPT ![s] = size[s] - 1]
                            /\ pool' = [pool EXCEPT ![store[s][k]] = @ + 1]
                            /\ heap' = heap
                            /\ ~proc'[p].found
                   /\ proc[p].pc = "get_touch"
                         => /\ k \in DOMAIN store[s]
                            /\ heap' = [heap EXCEPT ![store[s][k]].lastAccess = proc[p].now]
                            /\ proc'[p].found
                   /\ proc[p].pc # "get_touch" => heap' = heap
                   /\ (proc[p].pc = "get_read" /\ k \notin DOMAIN store[s])
                         => proc'[p].pc = "get_count" /\ ~proc'[p].found
                                                     /\ ~proc'[p].upgraded
                   /\ proc[p].pc # "get_count" => hits' = hits /\ misses' = misses
                   /\ (GetCompletes(p, k) /\ proc[p].found)
                         => /\ ret'[p].found
                            /\ hits' = hits + 1
                            /\ misses' = misses
                   /\ (GetCompletes(p, k) /\ ~proc[p].found)
                         => /\ ~ret'[p].found
                            /\ misses' = misses + 1
                            /\ hits' = hits]_vars

\* "ak" was set at time 1 without a TTL argument and a Get has found it at
\* time 2: the entry holds the value and the deadline of the Set, and the
\* lastAccess of the Get.
C33_Witness ==
    /\ ret["g1"] = [op |-> "Get", key |-> KeyAK, val |-> written[KeyAK].val,
                    found |-> TRUE, removed |-> FALSE]
    /\ hits = 1
    /\ KeyAK \in DOMAIN store[getShard[KeyAK]]
    /\ heap[store[getShard[KeyAK]][KeyAK]].Expiration = written[KeyAK].deadline
    /\ heap[store[getShard[KeyAK]][KeyAK]].Expiration = 1 + ttl
    /\ LastAccess(getShard[KeyAK], KeyAK) = 2

\* Close has returned: the done channel is closed and no caller is in Close.
CloseReturned == done /\ \A p \in Procs : proc[p].op # "Close"

\* C34: once Close has returned the cleanup goroutine has ended, holds no
\* mutex and takes no step, and a call in progress can always take its next
\* step.  The calls do what they did before: a Set maps its key to an entry
\* with its value and deadline, a Get has found with the value last set as
\* its result, and returns it, exactly if that Set is not undone and its
\* deadline has not passed at the time the Get reads, a Delete
\* leaves its key unmapped, a step of Clear empties its shard, Size returns
\* the number of mapped keys and Stats that number with the three counters as
\* they stand.  A key mapped to an expired entry leaves its map
\* only in a Get or a Delete of that key, an eviction by Set or a step of
\* Clear.
C34_UsableAfterClose ==
    /\ [](CloseReturned
            => /\ reaper.pc = "exited"
               /\ \A s \in ShardIds : mutex[s].w # Reaper /\ Reaper \notin mutex[s].r
               /\ \A p \in Procs : proc[p].pc # "idle" => ENABLED StepOf(p))
    /\ [][CloseReturned
            => /\ reaper' = reaper
               /\ \A p \in Procs :
                    LET k == proc[p].key
                        s == getShard[k]
                    IN  /\ SetCompletes(p, s)
                              => /\ ret'[p].op = "Set"
                                 /\ k \in DOMAIN store'[s]
                                 /\ heap'[store'[s][k]].Value = proc[p].val
                                 /\ heap'[store'[s][k]].Expiration = proc[p].exp
                                 /\ proc[p].exp = proc[p].deadline
                        /\ GetDecides(p, k)
                              => LET live == /\ written[k].set
                                             /\ DecidedTime(p) <= written[k].deadline
                                 IN  /\ DecidedFound(p) = live
                                     /\ live => DecidedValue(p) = written[k].val
                        /\ (GetCompletes(p, k) /\ proc'[p].pc = "idle")
                              => /\ ret'[p].op = "Get"
                                 /\ ret'[p].found = proc[p].found
                                 /\ ret'[p].val = proc[p].val
                        /\ DeleteCompletes(p, k)
                              => ret'[p].op = "Delete" /\ k \notin DOMAIN store'[s]
                        /\ \A x \in ShardIds :
                             ClearsShard(p, x) => DOMAIN store'[x] = {} /\ size'[x] = 0
                        /\ (proc[p].pc = "size_read" /\ proc'[p].pc = "idle")
                              => LET n == Cardinality({x \in Keys :
                                                        x \in DOMAIN store[getShard[x]]})
                                 IN  ret'[p] =
                                       IF proc[p].op = "Size"
                                       THEN [op |-> "Size", total |-> n]
                                       ELSE [op |-> "Stats",
                                             stats |-> [Hits |-> hits, Misses |-> misses,
                                                        Evictions |-> evictions,
                                                        Size |-> n]]
               /\ \A k \in Keys :
                    (MappedExpired(k) /\ k \notin DOMAIN store'[getShard[k]])
                       => \E p \in Procs :
                             /\ proc'[p] # proc[p]
                             /\ \/ /\ proc[p].pc \in {"get_recheck", "delete_body"}
                                   /\ proc[p].key = k
                                \/ proc[p].pc = "set_body" /\ k \in proc'[p].victim
                                \/ ClearsShard(p, getShard[k])]_vars

\* The cache was closed and "ak" was set with a TTL of one tick; two ticks
\* after the Set, with the cleanup goroutine gone, "ak" is still mapped to its
\* expired entry and the Size called last has returned 1.
C34_Witness ==
    /\ CloseReturned
    /\ reaper.pc = "exited"
    /\ nops = 3
    /\ ret["g1"] = [op |-> "Size", total |-> 1]
    /\ MappedExpired(KeyAK)
    /\ clock >= written[KeyAK].deadline + 1
    /\ LastAccess(getShard[KeyAK], KeyAK) = written[KeyAK].deadline - 1

\* C35: a Close called while the done channel is open closes it and goes on
\* to wait for the cleanup goroutine; a Close called once the channel is
\* closed, whether the first Close has returned or is still waiting, panics:
\* it leaves the channel as it is, takes no further step and never returns,
\* with or without an error value.  So at most one call of Close ever returns.
C35_SecondClosePanics ==
    /\ [](\A p \in Procs : proc[p].pc = "panicked" => done /\ ret[p] = NoRet)
    /\ [][\A p \in Procs :
            /\ (proc[p].pc = "idle" /\ proc'[p].op = "Close")
                  => IF done
                     THEN proc'[p].pc = "panicked" /\ done'
                     ELSE proc'[p].pc = "close_wait" /\ done'
            /\ proc[p].pc = "panicked" => proc'[p] = proc[p] /\ ret'[p] = ret[p]
            /\ (ret'[p].op = "Close" /\ ret[p].op # "Close")
                  => /\ proc[p].pc = "close_wait"
                     /\ \A q \in Procs \ {p} :
                          proc[q].op = "Close" => proc[q].pc = "panicked"]_vars

\* g1 has called Close twice, one call after the other, and g2 never: the
\* first call closed the channel and returned after the cleanup goroutine had
\* ended, the second has panicked.
C35_Witness ==
    /\ done
    /\ reaper.pc = "exited"
    /\ proc["g1"].pc = "panicked"
    /\ proc["g1"].op = "Close"
    /\ proc["g2"].pc = "idle"
    /\ ret["g2"] = NoRet
    /\ nops = 2

\* C36: a Set of a key that is mapped to an entry past its deadline evicts
\* nothing, also when the shard is full, leaves evictions, the shard's size
\* and key set and the pool as they are, keeps the key mapped to the same
\* entry and writes the new value and deadline into it; a Get that reads the
\* key while that Set is the last one and its deadline has not passed has the
\* new value as its result and returns it.
C36_SetOnExpiredIsUpdate ==
    [][\A p \in Procs :
         LET k == proc[p].key
             s == getShard[k]
         IN  /\ (SetChecks(p, s) /\ MappedExpired(k))
                   => /\ proc'[p].pc # "set_evicted"
                      /\ ret'[p].victim = {}
                      /\ evictions' = evictions
                      /\ size' = size
                      /\ DOMAIN store'[s] = DOMAIN store[s]
                      /\ store'[s][k] = store[s][k]
                      /\ pool' = pool
                      /\ heap'[store[s][k]].Value = proc[p].val
                      /\ heap'[store[s][k]].Expiration = proc[p].exp
                      /\ \A e \in EntryIds \ {store[s][k]} : heap'[e] = heap[e]
                      /\ written'[k] = [set |-> TRUE, val |-> proc[p].val,
                                        deadline |-> proc[p].exp, recycled |-> FALSE]
             /\ (/\ GetDecides(p, k)
                 /\ written[k].set
                 /\ DecidedTime(p) <= written[k].deadline)
                   => DecidedFound(p) /\ DecidedValue(p) = written[k].val
             /\ GetCompletes(p, k)
                   => ret'[p] = [op |-> "Get", key |-> k, val |-> proc[p].val,
                                 found |-> proc[p].found, removed |-> proc[p].removed]]_vars

\* With a capacity of one, a sweep has found "ak" expired in its shard and
\* waits for the exclusive lock; meanwhile the second Set of "ak" has found
\* the key present in the full shard and has given its entry a deadline that
\* has not passed: nothing was evicted and the size is one.
C36_Witness ==
    /\ nops = 2
    /\ ret["g1"] = [op |-> "Set", key |-> KeyAK, val |-> "v1", existed |-> TRUE,
                    full |-> TRUE, victim |-> {}]
    /\ reaper.pc = "lock"
    /\ KeyAK \in reaper.expiredKeys
    /\ KeyAK \in DOMAIN store[getShard[KeyAK]]
    /\ ~MappedExpired(KeyAK)
    /\ evictions = 0
    /\ size[getShard[KeyAK]] = 1
    /\ maxCapacity = 1

\* C37: with a default TTL that is not negative, every mapped entry has a
\* positive Expiration, never the 0 that Get takes for "no deadline"; a Set
\* without a positive TTL argument computes the time it reads on taking the
\* lock plus the default TTL and stores it; and in a cache with default TTL 0 a Get of a key
\* so set has found as its result if it reads the time of the Set and not
\* found if it reads any later time, and returns that result.
C37_ZeroTTLExpiresAtOnce ==
    /\ [](\A s \in ShardIds : \A k \in DOMAIN store[s] : heap[store[s][k]].Expiration > 0)
    /\ [][\A p \in Procs :
            LET k == proc[p].key
                s == getShard[k]
            IN  /\ (proc[p].pc = "set_lock" /\ proc'[p].pc = "set_body")
                      => proc'[p].exp = clock + ttl /\ proc'[p].exp > 0
                /\ SetCompletes(p, s)
                      => /\ heap'[store'[s][k]].Expiration = proc[p].exp
                         /\ written'[k].deadline = proc[p].exp
                /\ (GetDecides(p, k) /\ written[k].set /\ ttl = 0)
                      => /\ DecidedFound(p) = (DecidedTime(p) = written[k].deadline)
                         /\ DecidedTime(p) >= written[k].deadline
                /\ GetCompletes(p, k) => ret'[p].found = proc[p].found]_vars

\* In a cache with default TTL 0, "ak" was set at time 1 without a TTL
\* argument and a Get at a later time has returned not found and removed it.
C37_Witness ==
    /\ ttl = 0
    /\ nops = 2
    /\ written[KeyAK].set
    /\ written[KeyAK].deadline = 1
    /\ clock > 1
    /\ ret["g1"] = [op |-> "Get", key |-> KeyAK, val |-> Nil, found |-> FALSE,
                    removed |-> TRUE]

\* C38: a Set of a new key on a shard whose map holds as many keys as the
\* capacity, expired ones included, finds the shard full.  The key it evicts,
\* all keys of the shard being within the sample, has the smallest lastAccess
\* of the shard whether or not its deadline has passed, and it evicts none
\* only if the empty key has the smallest lastAccess; every key mapped to an
\* expired entry that is not the evicted one stays mapped.
C38_EvictionIgnoresExpiration ==
    [][\A p \in Procs, s \in ShardIds :
         /\ (/\ SetChecks(p, s)
             /\ proc[p].key \notin DOMAIN store[s]
             /\ maxCapacity > 0
             /\ Cardinality(DOMAIN store[s]) >= maxCapacity
             /\ Cardinality(DOMAIN store[s]) <= sampleSize)
               => /\ \A v \in Removed(s), x \in DOMAIN store[s] :
                       LastAccess(s, v) <= LastAccess(s, x)
                  /\ IF Removed(s) = {}
                     THEN /\ KeyEmpty \in DOMAIN store[s]
                          /\ \A x \in DOMAIN store[s] :
                               LastAccess(s, KeyEmpty) <= LastAccess(s, x)
                          /\ ret'[p].full
                          /\ ret'[p].victim = {}
                     ELSE /\ proc'[p].pc = "set_evicted"
                          /\ proc'[p].victim = Removed(s)
                  /\ \A x \in Keys :
                       (getShard[x] = s /\ MappedExpired(x) /\ x \notin Removed(s))
                          => x \in DOMAIN store'[s]
         /\ SetStores(p, s)
               => /\ ret'[p].full
                  /\ ret'[p].victim = proc[p].victim
                  /\ Removed(s) = {}]_vars

\* With a capacity of two, the shard held "d4", not expired, and "ak",
\* expired but accessed later than "d4"; the Set of the empty key has evicted
\* "d4", whose entry lies in the pool with its deadline not passed, and "ak"
\* is still mapped to its expired entry.
C38_Witness ==
    /\ maxCapacity = 2
    /\ ret["g1"] = [op |-> "Set", key |-> KeyEmpty, val |-> "v1", existed |-> FALSE,
                    full |-> TRUE, victim |-> {KeyD4}]
    /\ evictions = 1
    /\ MappedExpired(KeyAK)
    /\ \E e \in EntryIds :
         /\ owner[e] = {KeyD4}
         /\ pool[e] = 1
         /\ ~Expired(heap[e].Expiration, clock)
         /\ heap[e].lastAccess < LastAccess(getShard[KeyAK], KeyAK)

\* The keys of shard s whose entry is past its deadline at the time of the
\* running sweep.
ExpiredAtSweep(s) ==
    {k \in DOMAIN store[s] : Expired(heap[store[s][k]].Expiration, reaper.now)}

\* C39: the cleanup goroutine scans a shard holding its mutex shared and not
\* exclusively, and changes no map, size or entry in that step; it releases
\* the shared lock at the end of the scan and asks for the exclusive lock
\* exactly if the scan found a key past its deadline, otherwise it goes on to
\* the next shard or back to the select; it takes a mutex exclusively only
\* from that position, for the shard just scanned, holding nothing and with a
\* key collected.
C39_ReaperLocks ==
    /\ [](LET s == shards[reaper.i]
          IN  /\ reaper.pc = "scan"
                    => /\ Reaper \in mutex[s].r
                       /\ \A x \in ShardIds : mutex[x].w # Reaper
                       /\ \A x \in ShardIds \ {s} : Reaper \notin mutex[x].r
              /\ reaper.pc = "lock"
                    => /\ reaper.expiredKeys # {}
                       /\ \A x \in ShardIds : mutex[x].w # Reaper /\ Reaper \notin mutex[x].r
              /\ reaper.pc = "sweep"
                    => /\ reaper.expiredKeys # {}
                       /\ mutex[s].w = Reaper
                       /\ \A x \in ShardIds : Reaper \notin mutex[x].r
              /\ reaper.pc \in {"select", "rlock", "exited"}
                    => \A x \in ShardIds : mutex[x].w # Reaper /\ Reaper \notin mutex[x].r)
    /\ [][/\ (reaper.pc = "scan" /\ reaper' # reaper)
               => LET s == shards[reaper.i]
                  IN  /\ store' = store /\ size' = size /\ heap' = heap /\ pool' = pool
                      /\ Reaper \notin mutex'[s].r
                      /\ mutex'[s].w # Reaper
                      /\ IF ExpiredAtSweep(s) # {}
                         THEN /\ reaper'.pc = "lock"
                              /\ reaper'.i = reaper.i
                              /\ reaper'.expiredKeys = ExpiredAtSweep(s)
                         ELSE reaper'.pc \in {"rlock", "select"}
          /\ \A s \in ShardIds :
               (mutex'[s].w = Reaper /\ mutex[s].w # Reaper)
                  => /\ reaper.pc = "lock"
                     /\ s = shards[reaper.i]
                     /\ reaper.expiredKeys # {}
                     /\ Reaper \notin mutex[s].r]_vars

\* In the sweep of time 3 the scan of the first shard found "a" not expired
\* and went on without its exclusive lock; the scan of the second found "ak"
\* expired, and the cleanup goroutine now holds that shard's mutex
\* exclusively, and no mutex shared.
C39_Witness ==
    /\ reaper.pc = "sweep"
    /\ reaper.i = 2
    /\ reaper.expiredKeys = {KeyAK}
    /\ mutex[getShard[KeyAK]] = [w |-> Reaper, r |-> {}]
    /\ mutex[getShard[KeyA]] = [w |-> NoHolder, r |-> {}]
    /\ KeyA \in DOMAIN store[getShard[KeyA]]
    /\ ~Expired(heap[store[getShard[KeyA]][KeyA]].Expiration, reaper.now)
    /\ LastAccess(getShard[KeyA], KeyA) < reaper.now

====
